---- MODULE Spec2Model ----
(***************************************************************************)
(* Model of the library data quality pipeline                              *)
(* (docker_library_cleaner/Library_Data_Pipeline_Docker.py).               *)
(*                                                                         *)
(* A table (pandas DataFrame) is a sequence of rows.  A row is a record    *)
(* whose field idx is the pandas index label and whose other fields are    *)
(* the columns (Books, Customer_ID, Book_checkout, Book_Returned, ...).    *)
(* A cell is one of                                                        *)
(*    NaN            the missing value                                     *)
(*    Str(s)         a text; s is the sequence of its characters           *)
(*    Num(n)         a number                                              *)
(*    Date(y, m, d)  a typed date (a midnight Timestamp)                   *)
(*    NaT            the missing typed date                                *)
(***************************************************************************)
EXTENDS Integers, Sequences, FiniteSets, TLC

VARIABLES
    df,        \* the table held by the caller: the result of the last call
    arg,       \* the table that was passed to the last call
    op,        \* the last call: "init" before any stage has been called
    raised,    \* TRUE when the last call raised instead of returning
    pandas,    \* major version of the pandas build the program runs on
    today,     \* the processing date read by dataEnrich (ordinal day)
    swapped_count, \* the swap count dataEnrich reports (-1: none reported)
    passed,    \* the object that was passed to the last call, after the call
    files,     \* the two CSV files run_pipeline is pointed at
    customers_df,  \* the customers table held by run_pipeline
    columns,   \* the columns of the checkout table df
    pc,        \* the position of run_pipeline ("idle": not running)
    metrics,   \* the DEMetrics objects: metrics.books, metrics.customers
    report,    \* the dictionary the last to_dict call returned
    log,       \* the calls made so far, in order
    sink,      \* the files written to the output folder
    result     \* what run_pipeline has returned to its caller

\* the state of run_pipeline and of its metrics objects
run_vars == <<files, customers_df, columns, pc, metrics, report, log, sink,
              result>>

vars == <<df, arg, op, raised, pandas, today, swapped_count, passed, files,
          customers_df, columns, pc, metrics, report, log, sink, result>>

----------------------------------------------------------------------------
(* Cells *)

NaN == [t |-> "nan"]
NaT == [t |-> "nat"]
Str(s) == [t |-> "str", s |-> s]
Num(n) == [t |-> "num", n |-> n]
Date(y, m, d) == [t |-> "date", y |-> y, m |-> m, d |-> d]

\* Series.isna / Series.notna
isna(v) == v.t \in {"nan", "nat"}
notna(v) == ~isna(v)

----------------------------------------------------------------------------
(* Text primitives (Python str methods), on sequences of characters *)

Whitespace == {" ", "\t"}
Digits == {"0", "1", "2", "3", "4", "5", "6", "7", "8", "9"}

RECURSIVE lstrip(_)
lstrip(s) ==
    IF s # <<>> /\ Head(s) \in Whitespace THEN lstrip(Tail(s)) ELSE s

RECURSIVE rstrip(_)
rstrip(s) ==
    IF s # <<>> /\ s[Len(s)] \in Whitespace
    THEN rstrip(SubSeq(s, 1, Len(s) - 1))
    ELSE s

\* the value of a decimal digit
DigitVal(c) ==
    CASE c = "0" -> 0 [] c = "1" -> 1 [] c = "2" -> 2 [] c = "3" -> 3
      [] c = "4" -> 4 [] c = "5" -> 5 [] c = "6" -> 6 [] c = "7" -> 7
      [] c = "8" -> 8 [] c = "9" -> 9

DigitChar(n) == CHOOSE c \in Digits : DigitVal(c) = n

\* a non-empty run of decimal digits
IsDigits(s) == s # <<>> /\ \A i \in 1..Len(s) : s[i] \in Digits

\* int(s) for a run of decimal digits
RECURSIVE ParseNat(_)
ParseNat(s) ==
    IF s = <<>> THEN 0
    ELSE 10 * ParseNat(SubSeq(s, 1, Len(s) - 1)) + DigitVal(s[Len(s)])

\* the number n written with at least w digits (format %0wd)
RECURSIVE ZeroPad(_, _)
ZeroPad(n, w) ==
    IF n < 10 /\ w <= 1 THEN <<DigitChar(n)>>
    ELSE ZeroPad(n \div 10, w - 1) \o <<DigitChar(n % 10)>>

\* str.strip()
strip(s) == rstrip(lstrip(s))

\* s starts with the text old
StartsWith(s, old) ==
    Len(s) >= Len(old) /\ SubSeq(s, 1, Len(old)) = old

\* str.replace(old, new): every non-overlapping occurrence, left to right
RECURSIVE str_replace(_, _, _)
str_replace(s, old, new) ==
    IF s = <<>> THEN <<>>
    ELSE IF StartsWith(s, old)
         THEN new \o str_replace(SubSeq(s, Len(old) + 1, Len(s)), old, new)
         ELSE <<Head(s)>> \o str_replace(Tail(s), old, new)

\* old in s
Contains(s, old) ==
    \E i \in 1..(Len(s) - Len(old) + 1) : SubSeq(s, i, i + Len(old) - 1) = old

\* str.split(sep) for a one-character separator
RECURSIVE split(_, _)
split(s, sep) ==
    IF \A i \in 1..Len(s) : s[i] # sep THEN <<s>>
    ELSE LET k == CHOOSE i \in 1..Len(s) :
                      s[i] = sep /\ \A j \in 1..(i - 1) : s[j] # sep
         IN  <<SubSeq(s, 1, k - 1)>> \o split(SubSeq(s, k + 1, Len(s)), sep)

----------------------------------------------------------------------------
(* Series methods, cell by cell.  The .str methods leave NaN as NaN. *)

\* Series.astype(str): up to pandas 2 a missing value becomes the text
\* 'nan'; from pandas 3 the result is a string column that keeps it missing
astype_str(v, pd) ==
    IF v.t = "str" THEN v
    ELSE IF pd < 3 THEN Str(<<"n", "a", "n">>) ELSE NaN

\* Series.str.strip()
str_strip(v) == IF v.t = "str" THEN Str(strip(v.s)) ELSE v

\* Series.str.replace(old, new)
series_str_replace(v, old, new) ==
    IF v.t = "str" THEN Str(str_replace(v.s, old, new)) ELSE v

\* Series.replace(['', 'nan', 'NaN'], np.nan)
BlankTokens == {<<>>, <<"n", "a", "n">>, <<"N", "a", "N">>}
replace_blank(v) == IF v.t = "str" /\ v.s \in BlankTokens THEN NaN ELSE v

----------------------------------------------------------------------------
(* Table primitives *)

\* df[mask]: the rows whose mask entry is TRUE, in order
RECURSIVE BoolIndex(_, _)
BoolIndex(t, mask) ==
    IF t = <<>> THEN <<>>
    ELSE LET rest == BoolIndex(Tail(t), Tail(mask))
         IN  IF Head(mask) THEN <<Head(t)>> \o rest ELSE rest

\* the index labels of a table, in order
Index(t) == [i \in 1..Len(t) |-> t[i].idx]

\* the row of table t with index label k
RowAt(t, k) == t[CHOOSE i \in 1..Len(t) : t[i].idx = k]

HasLabel(t, k) == \E i \in 1..Len(t) : t[i].idx = k

\* a stage without its first statement: the column assignments are made
\* on the caller's object
input_after_inplace(t, worked) == worked

\* df = df.copy() (lines 97, 133, 178, 255): every stage rebinds its
\* parameter to a copy before it assigns any column, so the caller's object
\* keeps the value t it had; worked is the copy once the stage has assigned
\* its columns
input_after_copy(t, worked) == t

----------------------------------------------------------------------------
(* duplicateCheck *)

KeyOf(r) == <<r.Books, r.Customer_ID, r.Book_checkout>>

\* duplicated with keep='last': the last occurrence of a key survives
duplicated_keep_last(t) ==
    [i \in 1..Len(t) |->
        \E j \in (i + 1)..Len(t) : KeyOf(t[j]) = KeyOf(t[i])]

\* duplicated with the checkout date left out of the subset
duplicated_two_columns(t) ==
    [i \in 1..Len(t) |->
        \E j \in 1..(i - 1) : /\ t[j].Books = t[i].Books
                              /\ t[j].Customer_ID = t[i].Customer_ID]

\* df.duplicated(subset=[...], keep='first'): NaN equals NaN
duplicated(t) ==
    [i \in 1..Len(t) |-> \E j \in 1..(i - 1) : KeyOf(t[j]) = KeyOf(t[i])]

duplicateCheck(t) ==
    BoolIndex(t, [i \in 1..Len(t) |-> ~duplicated(t)[i]])

----------------------------------------------------------------------------
(* naCheck *)

\* pd.to_numeric(errors='coerce') of one cell: a text that is not a
\* number becomes NaN
to_numeric(v) ==
    CASE v.t = "num" -> v
      [] v.t = "str" -> IF IsDigits(v.s) THEN Num(ParseNat(v.s)) ELSE NaN
      [] OTHER -> NaN

naCheck_normalise(r, pd) ==
    [r EXCEPT !.Books = replace_blank(str_strip(astype_str(r.Books, pd))),
              !.Customer_ID = to_numeric(r.Customer_ID)]

\* naCheck without the filter: the key columns are normalised and every
\* row is returned
naCheck_normalise_only(t, pd) ==
    [i \in 1..Len(t) |-> naCheck_normalise(t[i], pd)]

\* naCheck under the strict policy: a row is dropped when either key
\* field is missing
naCheck_either_missing(t, pd) ==
    LET n == [i \in 1..Len(t) |-> naCheck_normalise(t[i], pd)]
    IN  BoolIndex(n, [i \in 1..Len(t) |->
                        ~(isna(n[i].Books) \/ isna(n[i].Customer_ID))])

naCheck(t, pd) ==
    LET n == [i \in 1..Len(t) |-> naCheck_normalise(t[i], pd)]
        both_missing == [i \in 1..Len(t) |->
                            isna(n[i].Books) /\ isna(n[i].Customer_ID)]
    IN  BoolIndex(n, [i \in 1..Len(t) |-> ~both_missing[i]])

----------------------------------------------------------------------------
(* Calendar *)

IsLeap(y) == (y % 4 = 0 /\ y % 100 # 0) \/ y % 400 = 0

DaysInMonth(y, m) ==
    CASE m = 2 -> IF IsLeap(y) THEN 29 ELSE 28
      [] m \in {4, 6, 9, 11} -> 30
      [] OTHER -> 31

\* (y, m, d) is a date of the proleptic Gregorian calendar
ValidYMD(y, m, d) ==
    y >= 1 /\ m \in 1..12 /\ d >= 1 /\ d <= DaysInMonth(y, m)

RECURSIVE DaysBeforeMonth(_, _)
DaysBeforeMonth(y, m) ==
    IF m = 1 THEN 0 ELSE DaysBeforeMonth(y, m - 1) + DaysInMonth(y, m - 1)

\* the day number of a date (0001-01-01 is day 1)
Ordinal(v) ==
    LET p == v.y - 1
    IN  p * 365 + (p \div 4) - (p \div 100) + (p \div 400)
          + DaysBeforeMonth(v.y, v.m) + v.d

NextDay(v) ==
    IF v.d < DaysInMonth(v.y, v.m) THEN Date(v.y, v.m, v.d + 1)
    ELSE IF v.m < 12 THEN Date(v.y, v.m + 1, 1)
    ELSE Date(v.y + 1, 1, 1)

\* Timestamp + pd.Timedelta(days=n); NaT stays NaT
RECURSIVE AddDays(_, _)
AddDays(v, n) ==
    IF v.t # "date" \/ n = 0 THEN v ELSE AddDays(NextDay(v), n - 1)

\* (a - b).dt.days: NaN when either date is missing
DaysBetween(a, b) ==
    IF a.t = "date" /\ b.t = "date" THEN Num(Ordinal(a) - Ordinal(b)) ELSE NaN

\* Series.dt.strftime('%Y-%m-%d'); NaT gives NaN
strftime_iso(v) ==
    IF v.t # "date" THEN NaN
    ELSE Str(ZeroPad(v.y, 4) \o <<"-">> \o ZeroPad(v.m, 2)
               \o <<"-">> \o ZeroPad(v.d, 2))

----------------------------------------------------------------------------
(* dateCleaner *)

DateCols == {"Book_checkout", "Book_Returned"}

\* lines 181-183: strip quotes and whitespace, normalise empties
strip_quotes(v, pd) ==
    replace_blank(str_strip(series_str_replace(astype_str(v, pd), <<"\"">>, <<>>)))

\* the year repair with the second substitution left out
fix_year_2063_only(v) ==
    series_str_replace(v, <<"2", "0", "6", "3">>, <<"2", "0", "2", "3">>)

\* lines 188-190: 2063 -> 2023, then 2062 -> 2023
fix_year(v) ==
    series_str_replace(
        series_str_replace(v, <<"2", "0", "6", "3">>, <<"2", "0", "2", "3">>),
        <<"2", "0", "6", "2">>, <<"2", "0", "2", "3">>)

\* fix_impossible with 31/02 moved to 29/02 (right in leap years only)
\* and without the 31/04 rule
fix_impossible_feb29(v) ==
    IF v.t # "str" \/ ~Contains(v.s, <<"/">>) THEN v
    ELSE LET parts == split(v.s, "/")
         IN  IF Len(parts) # 3 THEN v
             ELSE LET m == parts[2]
                      y == parts[3]
                      d1 == IF parts[1] = <<"3", "2">> /\ m = <<"0", "5">>
                            THEN <<"3", "1">> ELSE parts[1]
                      d2 == IF d1 = <<"3", "1">> /\ m = <<"0", "2">>
                            THEN <<"2", "9">> ELSE d1
                  IN  Str(d2 \o <<"/">> \o m \o <<"/">> \o y)

\* lines 195-209
fix_impossible(v) ==
    IF v.t # "str" \/ ~Contains(v.s, <<"/">>) THEN v
    ELSE LET parts == split(v.s, "/")
         IN  IF Len(parts) # 3 THEN v
             ELSE LET m == parts[2]
                      y == parts[3]
                      d1 == IF parts[1] = <<"3", "2">> /\ m = <<"0", "5">>
                            THEN <<"3", "1">> ELSE parts[1]
                      d2 == IF d1 = <<"3", "1">> /\ m = <<"0", "2">>
                            THEN <<"2", "8">> ELSE d1
                      d3 == IF d2 = <<"3", "1">> /\ m = <<"0", "4">>
                            THEN <<"3", "0">> ELSE d2
                  IN  Str(d3 \o <<"/">> \o m \o <<"/">> \o y)

\* the directive patterns of the strptime parser behind
\* pd.to_datetime(format='%d/%m/%Y'):
\*   %d  3[0-1]|[1-2]\d|0[1-9]|[1-9]| [1-9]
\*   %m  1[0-2]|0[1-9]|[1-9]
\*   %Y  \d\d\d\d
MatchesDay(s) ==
    \/ Len(s) = 2 /\ s[1] = "3" /\ s[2] \in {"0", "1"}
    \/ Len(s) = 2 /\ s[1] \in {"1", "2"} /\ s[2] \in Digits
    \/ Len(s) = 2 /\ s[1] \in {"0", " "} /\ s[2] \in Digits \ {"0"}
    \/ Len(s) = 1 /\ s[1] \in Digits \ {"0"}

MatchesMonth(s) ==
    \/ Len(s) = 2 /\ s[1] = "1" /\ s[2] \in {"0", "1", "2"}
    \/ Len(s) = 2 /\ s[1] = "0" /\ s[2] \in Digits \ {"0"}
    \/ Len(s) = 1 /\ s[1] \in Digits \ {"0"}

MatchesYear(s) == Len(s) = 4 /\ \A i \in 1..4 : s[i] \in Digits

\* the day part as a number (a leading blank reads as a leading zero)
DayNumber(s) == ParseNat(IF s[1] = " " THEN Tail(s) ELSE s)

\* the dates a nanosecond Timestamp can hold at midnight (pandas 1 and 2)
TimestampMin == Date(1677, 9, 22)
TimestampMax == Date(2262, 4, 11)

InTimestampBounds(v, pd) ==
    pd >= 3 \/ (Ordinal(TimestampMin) <= Ordinal(v)
                  /\ Ordinal(v) <= Ordinal(TimestampMax))

\* line 225: pd.to_datetime(format='%d/%m/%Y', errors='coerce') of one cell
to_datetime(v, pd) ==
    IF v.t # "str" THEN NaT
    ELSE LET parts == split(v.s, "/")
         IN  IF Len(parts) # 3 THEN NaT
             ELSE IF ~(MatchesDay(parts[1]) /\ MatchesMonth(parts[2])
                         /\ MatchesYear(parts[3])) THEN NaT
             ELSE LET d == DayNumber(parts[1])
                      m == ParseNat(parts[2])
                      y == ParseNat(parts[3])
                  IN  IF ValidYMD(y, m, d) /\ InTimestampBounds(Date(y, m, d), pd)
                      THEN Date(y, m, d) ELSE NaT

\* the text of a date field once lines 181-212 have run
repaired_text(v, pd) == fix_impossible(fix_year(strip_quotes(v, pd)))

\* Up to pandas 2, Series.replace downcasts an object column that has become
\* all-NaN to float64, and the .str accessor of line 189 then raises
\* AttributeError; pandas 3 keeps the string column.
dateCleaner_raises(t, pd) ==
    /\ pd < 3
    /\ Len(t) > 0
    /\ \/ \A i \in 1..Len(t) : isna(strip_quotes(t[i].Book_checkout, pd))
       \/ \A i \in 1..Len(t) : isna(strip_quotes(t[i].Book_Returned, pd))

dateCleaner_row(r, pd) ==
    LET checkout == repaired_text(r.Book_checkout, pd)
        returned == repaired_text(r.Book_Returned, pd)
    IN  [idx |-> r.idx,
         Books |-> str_strip(astype_str(r.Books, pd)),
         Customer_ID |-> r.Customer_ID,
         Book_checkout |-> to_datetime(checkout, pd),
         Book_Returned |-> to_datetime(returned, pd),
         Book_checkout_raw |-> checkout,
         Book_Returned_raw |-> returned]

dateCleaner(t, pd) == [i \in 1..Len(t) |-> dateCleaner_row(t[i], pd)]

----------------------------------------------------------------------------
(* dataEnrich *)

LoanPeriod == 14

\* Series < 0 (a comparison with NaN is False)
IsNegative(v) == v.t = "num" /\ v.n < 0

\* Series > 0 (a comparison with NaN is False)
IsPositive(v) == v.t = "num" /\ v.n > 0

\* swap_mask with the comparison reversed: the rows with a positive
\* duration are exchanged
swap_mask_positive(t) ==
    [i \in 1..Len(t) |->
        /\ IsPositive(DaysBetween(t[i].Book_Returned, t[i].Book_checkout))
        /\ notna(t[i].Book_checkout) /\ notna(t[i].Book_Returned)]

\* swap_mask as "the duration is not positive", without the test that
\* both dates are present: open loans and same-day returns are exchanged
\* as well
swap_mask_not_positive(t) ==
    [i \in 1..Len(t) |->
        ~IsPositive(DaysBetween(t[i].Book_Returned, t[i].Book_checkout))]

\* lines 261-263: the rows whose dates are exchanged
swap_mask(t) ==
    [i \in 1..Len(t) |->
        /\ IsNegative(DaysBetween(t[i].Book_Returned, t[i].Book_checkout))
        /\ notna(t[i].Book_checkout) /\ notna(t[i].Book_Returned)]

\* the count taken from mask_both_dates instead of swap_mask
count_both_dates(t) ==
    Cardinality({i \in 1..Len(t) :
                    notna(t[i].Book_checkout) /\ notna(t[i].Book_Returned)})

\* line 265
count_swapped(t) == Cardinality({i \in 1..Len(t) : swap_mask(t)[i]})

\* the exchange without the temporary copy: the return date is read back
\* from the checkout column after it has been overwritten
swap_dates_no_tmp(t) ==
    LET mask == swap_mask(t)
    IN  [i \in 1..Len(t) |->
            IF mask[i]
            THEN [t[i] EXCEPT !.Book_checkout = t[i].Book_Returned]
            ELSE t[i]]

\* lines 268-270: the .loc assignments align the two columns on the index
swap_dates(t) ==
    LET mask == swap_mask(t)
        tmp_checkout == [i \in 1..Len(t) |-> t[i].Book_checkout]
        step1 == [i \in 1..Len(t) |->
                    IF mask[i]
                    THEN [t[i] EXCEPT
                            !.Book_checkout = RowAt(t, t[i].idx).Book_Returned]
                    ELSE t[i]]
    IN  [i \in 1..Len(t) |->
            IF mask[i]
            THEN [step1[i] EXCEPT !.Book_Returned =
                    tmp_checkout[CHOOSE j \in 1..Len(t) : t[j].idx = t[i].idx]]
            ELSE step1[i]]

\* overdue_days counted to the processing date for every loan, returned or
\* not
overdue_days_from_today(r, expected, now) ==
    IF notna(expected) THEN DaysBetween(now, expected) ELSE NaN

\* overdue_days of a returned loan counted from the checkout date instead
\* of the expected return date
overdue_days_from_checkout(r, expected, now) ==
    IF notna(r.Book_Returned) /\ notna(expected)
    THEN DaysBetween(r.Book_Returned, r.Book_checkout)
    ELSE IF isna(r.Book_Returned) /\ notna(expected)
         THEN DaysBetween(now, expected)
         ELSE NaN

\* overdue_days with the open-loan branch left out: a loan without a return
\* date has no overdue_days
overdue_days_returned_only(r, expected, now) ==
    IF notna(r.Book_Returned) /\ notna(expected)
    THEN DaysBetween(r.Book_Returned, expected)
    ELSE NaN

\* overdue_days that falls back on the return date when there is no
\* expected return date
overdue_days_from_return(r, expected, now) ==
    IF notna(r.Book_Returned) /\ notna(expected)
    THEN DaysBetween(r.Book_Returned, expected)
    ELSE IF isna(r.Book_Returned) /\ notna(expected)
         THEN DaysBetween(now, expected)
         ELSE IF notna(r.Book_Returned)
              THEN DaysBetween(now, r.Book_Returned)
              ELSE NaN

\* lines 292-300
overdue_days(r, expected, now) ==
    IF notna(r.Book_Returned) /\ notna(expected)
    THEN DaysBetween(r.Book_Returned, expected)
    ELSE IF isna(r.Book_Returned) /\ notna(expected)
         THEN DaysBetween(now, expected)
         ELSE NaN

\* lines 258, 273-303 for one row, once the swap pass is over
enrich_row(r, now) ==
    LET loan_duration == DaysBetween(r.Book_Returned, r.Book_checkout)
        expected == AddDays(r.Book_checkout, LoanPeriod)
        overdue == overdue_days(r, expected, now)
    IN  [c \in DOMAIN r \cup {"loan_duration", "negative_duration_flag",
                              "checkout_date_iso", "return_date_iso",
                              "expected_return_date", "overdue_days",
                              "is_overdue"} |->
            CASE c = "loan_duration" -> loan_duration
              [] c = "negative_duration_flag" -> IsNegative(loan_duration)
              [] c = "checkout_date_iso" -> strftime_iso(r.Book_checkout)
              [] c = "return_date_iso" -> strftime_iso(r.Book_Returned)
              [] c = "expected_return_date" -> expected
              [] c = "overdue_days" -> overdue
              [] c = "is_overdue" -> IsPositive(overdue)
              [] OTHER -> r[c]]

\* the strict-drop policy: a row with a negative duration is removed
\* instead of having its dates exchanged
dataEnrich_drop_negative(t, now) ==
    LET kept == BoolIndex(t, [i \in 1..Len(t) |-> ~swap_mask(t)[i]])
    IN  [i \in 1..Len(kept) |-> enrich_row(kept[i], now)]

\* enrichment of the complete loans only: a row with a missing date is
\* left out of the result
dataEnrich_drop_open(t, now) ==
    LET complete == BoolIndex(t, [i \in 1..Len(t) |->
                        notna(t[i].Book_checkout) /\ notna(t[i].Book_Returned)])
        swapped == IF count_swapped(complete) > 0 THEN swap_dates(complete)
                   ELSE complete
    IN  [i \in 1..Len(complete) |-> enrich_row(swapped[i], now)]

\* enrichment without the swap pass
dataEnrich_no_swap(t, now) == [i \in 1..Len(t) |-> enrich_row(t[i], now)]

\* the ISO texts taken from the dates as they were passed in, before the
\* swap pass
dataEnrich_iso_before_swap(t, now) ==
    LET swapped == IF count_swapped(t) > 0 THEN swap_dates(t) ELSE t
    IN  [i \in 1..Len(t) |->
            [enrich_row(swapped[i], now) EXCEPT
                !.checkout_date_iso = strftime_iso(t[i].Book_checkout),
                !.return_date_iso = strftime_iso(t[i].Book_Returned)]]

dataEnrich(t, now) ==
    LET swapped == IF count_swapped(t) > 0 THEN swap_dates(t) ELSE t
    IN  [i \in 1..Len(t) |-> enrich_row(swapped[i], now)]

----------------------------------------------------------------------------
(* DEMetrics.  An object is a record of its attributes; total_dropped and   *)
(* retention_rate exist once calculate_totals has run.  A rate is the       *)
(* exact quotient num/den in lowest terms.                                  *)

RECURSIVE GCD(_, _)
GCD(a, b) == IF b = 0 THEN a ELSE GCD(b, a % b)

\* the quotient n/d (d > 0, n >= 0)
Ratio(n, d) ==
    IF n = 0 THEN [num |-> 0, den |-> 1]
    ELSE [num |-> n \div GCD(n, d), den |-> d \div GCD(n, d)]

\* lines 334-345
DEMetrics(table_name, now) ==
    [table_name |-> table_name,
     initial_rows |-> 0,
     rows_after_duplicates |-> 0,
     rows_after_na |-> 0,
     rows_after_cleaning |-> 0,
     final_rows |-> 0,
     duplicates_removed |-> 0,
     na_removed |-> 0,
     invalid_dates_removed |-> 0,
     negative_duration_removed |-> 0,
     timestamp |-> now]

\* the attributes a caller assigns
CountFields ==
    {"initial_rows", "rows_after_duplicates", "rows_after_na",
     "rows_after_cleaning", "final_rows", "duplicates_removed", "na_removed",
     "invalid_dates_removed", "negative_duration_removed"}

\* the totals taken after date cleaning instead of after enrichment
calculate_totals_after_cleaning(m) ==
    [c \in DOMAIN m \cup {"total_dropped", "retention_rate"} |->
        CASE c = "total_dropped" -> m.initial_rows - m.rows_after_cleaning
          [] c = "retention_rate" ->
                IF m.initial_rows > 0
                THEN Ratio(m.rows_after_cleaning * 100, m.initial_rows)
                ELSE Ratio(0, 1)
          [] OTHER -> m[c]]

\* lines 347-350
calculate_totals(m) ==
    [c \in DOMAIN m \cup {"total_dropped", "retention_rate"} |->
        CASE c = "total_dropped" -> m.initial_rows - m.final_rows
          [] c = "retention_rate" ->
                IF m.initial_rows > 0
                THEN Ratio(m.final_rows * 100, m.initial_rows)
                ELSE Ratio(0, 1)
          [] OTHER -> m[c]]

\* f"{rate:.1f}%": the rate rounded to one decimal, ties to the even digit
format_rate(rate) ==
    LET q == (rate.num * 10) \div rate.den
        rem == (rate.num * 10) % rate.den
        tenths == IF 2 * rem > rate.den THEN q + 1
                  ELSE IF 2 * rem = rate.den THEN q + (q % 2)
                  ELSE q
    IN  Str(ZeroPad(tenths \div 10, 1) \o <<".">>
              \o <<DigitChar(tenths % 10)>> \o <<"%">>)

\* lines 372-386: the dictionary, taken from the object once
\* calculate_totals has run on it
to_dict(m) ==
    LET c == calculate_totals(m)
    IN  [timestamp |-> c.timestamp,
         table_name |-> c.table_name,
         initial_records |-> c.initial_rows,
         duplicates_removed |-> c.duplicates_removed,
         na_removed |-> c.na_removed,
         invalid_dates_removed |-> c.invalid_dates_removed,
         negative_duration_removed |-> c.negative_duration_removed,
         total_dropped |-> c.total_dropped,
         final_records |-> c.final_rows,
         retention_rate |-> format_rate(c.retention_rate)]

----------------------------------------------------------------------------
(* The calls.  Each stage is a function of the table it is given; the       *)
(* caller (run_pipeline, or a test) replaces its table by the result.       *)

\* a table as fileLoader delivers it: the date columns hold text or NaN
RawTable(t) ==
    \A i \in 1..Len(t) :
        /\ DOMAIN t[i] = {"idx", "Books", "Customer_ID",
                          "Book_checkout", "Book_Returned"}
        /\ t[i].Book_checkout.t \in {"nan", "str"}
        /\ t[i].Book_Returned.t \in {"nan", "str"}

\* a table whose date columns are datetime columns
TypedTable(t) ==
    \A i \in 1..Len(t) :
        /\ t[i].Book_checkout.t \in {"nat", "date"}
        /\ t[i].Book_Returned.t \in {"nat", "date"}

Call_duplicateCheck ==
    /\ ~raised
    /\ op \in {"init", "duplicateCheck", "naCheck"}
    /\ RawTable(df)
    /\ df' = duplicateCheck(df)
    /\ arg' = df
    /\ passed' = input_after_copy(df, df)
    /\ op' = "duplicateCheck"
    /\ UNCHANGED <<raised, pandas, today, swapped_count>>
    /\ UNCHANGED run_vars

Call_naCheck ==
    /\ ~raised
    /\ op \in {"init", "duplicateCheck", "naCheck"}
    /\ RawTable(df)
    /\ df' = naCheck(df, pandas)
    /\ arg' = df
    /\ passed' = input_after_copy(df,
                     [i \in 1..Len(df) |-> naCheck_normalise(df[i], pandas)])
    /\ op' = "naCheck"
    /\ UNCHANGED <<raised, pandas, today, swapped_count>>
    /\ UNCHANGED run_vars

Call_dateCleaner ==
    /\ ~raised
    /\ op \in {"init", "duplicateCheck", "naCheck"}
    /\ RawTable(df)
    /\ arg' = df
    /\ op' = "dateCleaner"
    /\ IF dateCleaner_raises(df, pandas)
       THEN raised' = TRUE /\ df' = df /\ passed' = df
       ELSE /\ raised' = FALSE
            /\ df' = dateCleaner(df, pandas)
            /\ passed' = input_after_copy(df, dateCleaner(df, pandas))
    /\ UNCHANGED <<pandas, today, swapped_count>>
    /\ UNCHANGED run_vars

Call_dataEnrich ==
    /\ ~raised
    /\ \/ op = "dateCleaner"
       \/ op = "init" /\ Len(df) > 0 /\ TypedTable(df)
    /\ df' = dataEnrich(df, today)
    /\ arg' = df
    /\ passed' = input_after_copy(df, dataEnrich(df, today))
    /\ op' = "dataEnrich"
    /\ swapped_count' = count_swapped(df)
    /\ UNCHANGED <<raised, pandas, today>>
    /\ UNCHANGED run_vars

----------------------------------------------------------------------------
(* Inputs *)

PandasBuilds == {2, 3}

MkRow(b, c, co, re) ==
    [idx |-> 0, Books |-> b, Customer_ID |-> c,
     Book_checkout |-> co, Book_Returned |-> re]

\* the tables of k rows drawn from Rows, under a fresh RangeIndex
TablesOfLen(Rows, k) ==
    {[i \in 1..k |-> [f[i] EXCEPT !.idx = i - 1]] : f \in [1..k -> Rows]}

\* the tables of at most n rows drawn from Rows
Tables(Rows, n) == UNION {TablesOfLen(Rows, k) : k \in 0..n}

\* the four columns of the checkout table
RequiredColumns == {"Books", "Customer_ID", "Book_checkout", "Book_Returned"}

\* no file, no dictionary, no return value
NoFile == [t |-> "none"]
None == [t |-> "none"]

InitWith(T, P, D) ==
    /\ df \in T
    /\ arg = <<>>
    /\ op = "init"
    /\ raised = FALSE
    /\ pandas \in P
    /\ today \in D
    /\ swapped_count = -1
    /\ passed = <<>>
    /\ files = [books |-> NoFile, customers |-> NoFile]
    /\ customers_df = <<>>
    /\ columns = RequiredColumns
    /\ pc = "idle"
    /\ metrics = [books |-> DEMetrics("books", today),
                  customers |-> DEMetrics("customers", today)]
    /\ report = None
    /\ log = <<>>
    /\ sink = {}
    /\ result = None

\* texts
Txt_A == <<"A">>
Txt_B == <<"B">>
Txt_nan == <<"n", "a", "n">>
Txt_NaN == <<"N", "a", "N">>
Quote == <<"\"">>
Slash == <<"/">>

\* the text d/m/y
DMY(d, m, y) == d \o Slash \o m \o Slash \o y

Quoted(s) == Quote \o s \o Quote

Y2023 == <<"2", "0", "2", "3">>
Y2063 == <<"2", "0", "6", "3">>
Y2062 == <<"2", "0", "6", "2">>

Todays == {Date(2023, 3, 1), Date(2023, 6, 20)}

----------------------------------------------------------------------------
(* duplicateCheck called on raw tables, once or repeatedly *)

MaxRowsDup == 3

RowsDup ==
    {MkRow(b, c, co, Str(DMY(<<"0", "5">>, <<"0", "3">>, Y2023))) :
        b \in {NaN, Str(Txt_A)},
        c \in {NaN, Num(1)},
        co \in {NaN, Str(DMY(<<"0", "1">>, <<"0", "3">>, Y2023)),
                Str(Quoted(DMY(<<"0", "1">>, <<"0", "3">>, Y2023)))}}

InitDup == InitWith(Tables(RowsDup, MaxRowsDup), {2}, {Date(2023, 3, 1)})

NextDup == Call_duplicateCheck

SpecDup == InitDup /\ [][NextDup]_vars

\* position of the row labelled k in table t
PosOf(t, k) == CHOOSE i \in 1..Len(t) : t[i].idx = k

\* row i of t is the first row of t with its key
FirstOfKey(t, i) ==
    \A j \in 1..(i - 1) :
        \/ t[j].Books # t[i].Books
        \/ t[j].Customer_ID # t[i].Customer_ID
        \/ t[j].Book_checkout # t[i].Book_checkout

\* C3: duplicateCheck returns exactly the first occurrences, in the original
\* row order, of each key (Books, Customer ID, Book checkout): a row of the
\* input is in the output if and only if no earlier input row has the same
\* key (null equal to null), so every key of the input occurs exactly once
\* in the output, no two output rows share a key, and the surviving rows
\* are unchanged and keep their relative order.
C3_FirstOccurrences ==
    (op = "duplicateCheck") =>
        /\ \A i \in 1..Len(arg) :
              FirstOfKey(arg, i) <=> (\E j \in 1..Len(df) : df[j] = arg[i])
        /\ \A j \in 1..Len(df) : \E i \in 1..Len(arg) : df[j] = arg[i]
        /\ \A i \in 1..Len(arg) :
              Cardinality({j \in 1..Len(df) : KeyOf(df[j]) = KeyOf(arg[i])}) = 1
        /\ \A j, k \in 1..Len(df) :
              j < k => PosOf(arg, df[j].idx) < PosOf(arg, df[k].idx)

\* C3 witness: a row whose key has a null component was removed as the
\* repeat of an earlier row, and two rows with different keys survive
C3_Witness ==
    /\ op = "duplicateCheck"
    /\ Len(df) = 2
    /\ \E i \in 1..Len(arg) :
          /\ ~FirstOfKey(arg, i)
          /\ isna(arg[i].Books)
          /\ isna(arg[i].Book_checkout)

\* no key occurs twice in t
NoRepeatedKey(t) == \A i \in 1..Len(t) : FirstOfKey(t, i)

\* C4: duplicateCheck is idempotent (run on its own output it removes
\* nothing), and a table with no repeated key is returned with all its rows.
C4_Idempotent ==
    (op = "duplicateCheck") =>
        /\ duplicateCheck(df) = df
        /\ NoRepeatedKey(arg) => df = arg

\* C4 witness: a run that removed a row, whose output a second run would
\* be given
C4_Witness ==
    /\ op = "duplicateCheck"
    /\ Len(df) < Len(arg)
    /\ Len(df) >= 2

----------------------------------------------------------------------------
(* naCheck called on raw tables *)

MaxRowsNa == 3

BooksNa ==
    {NaN, Str(<<>>), Str(<<" ">>), Str(Txt_nan), Str(Txt_NaN),
     Str(<<" ">> \o Txt_nan \o <<"\t">>), Str(<<"N", "A", "N">>),
     Str(Txt_A), Str(<<" ">> \o Txt_A \o <<" ">>)}

CustomersNa == {NaN, Num(1), Str(<<"7">>), Str(<<"x">>), Str(<<>>)}

RowsNa ==
    {MkRow(b, c, Str(DMY(<<"0", "1">>, <<"0", "3">>, Y2023)),
                 Str(DMY(<<"0", "5">>, <<"0", "3">>, Y2023))) :
        b \in BooksNa, c \in CustomersNa}

RowsNaOther ==
    {MkRow(b, c, Str(DMY(<<"0", "2">>, <<"0", "3">>, Y2023)), NaN) :
        b \in {Str(<<" ">>), Str(Txt_B)}, c \in {Str(<<"x">>), Num(2)}}

\* one row drawn from RowsNa among rows drawn from RowsNaOther
TablesNa ==
    {[i \in 1..Len(f) |-> [f[i] EXCEPT !.idx = i - 1]] :
        f \in {g \o <<r>> \o h :
                  r \in RowsNa,
                  g \in Tables(RowsNaOther, 1),
                  h \in Tables(RowsNaOther, MaxRowsNa - 2)}}

InitNa == InitWith(TablesNa, PandasBuilds, {Date(2023, 3, 1)})

NextNa == Call_naCheck

SpecNa == InitNa /\ [][NextNa]_vars

\* a Books value that counts as missing: null, or a text that is empty,
\* whitespace only, 'nan' or 'NaN' once stripped
BooksMissing(v) ==
    \/ v = NaN
    \/ v.t = "str" /\ strip(v.s) \in {<<>>, Txt_nan, Txt_NaN}

\* a Customer ID value that counts as missing: null, or a text that is not
\* a number
CustomerMissing(v) ==
    \/ v = NaN
    \/ v.t = "str" /\ ~IsDigits(v.s)

\* C5: naCheck never raises and removes a row if and only if both key
\* fields are missing after normalisation (Books null, empty, whitespace
\* only, 'nan' or 'NaN' after stripping; Customer ID null or not a number);
\* every other row is retained, in the original order.
C5_DropsOnlyBothMissing ==
    (op = "naCheck") =>
        /\ ~raised
        /\ \A i \in 1..Len(arg) :
              (BooksMissing(arg[i].Books) /\ CustomerMissing(arg[i].Customer_ID))
                  <=> ~HasLabel(df, arg[i].idx)
        /\ \A j \in 1..Len(df) : HasLabel(arg, df[j].idx)
        /\ \A j, k \in 1..Len(df) :
              j < k => PosOf(arg, df[j].idx) < PosOf(arg, df[k].idx)

\* C5 witness: one row with a whitespace-only title and a malformed id was
\* removed, and a row missing only its title was kept
C5_Witness ==
    /\ op = "naCheck"
    /\ Len(arg) = 2 /\ Len(df) = 1
    /\ \E i \in 1..Len(arg) :
          /\ arg[i].Books = Str(<<" ">>)
          /\ arg[i].Customer_ID = Str(<<"x">>)
          /\ ~HasLabel(df, arg[i].idx)
    /\ isna(df[1].Books) /\ notna(df[1].Customer_ID)

----------------------------------------------------------------------------
(* dataEnrich called on tables of typed dates *)

MaxRowsEnrich == 2

DatesEnrich ==
    {NaT, Date(2023, 2, 1), Date(2023, 2, 15), Date(2023, 2, 20),
     Date(2023, 3, 21), Date(2023, 3, 24)}

RowsEnrich ==
    {MkRow(Str(Txt_A), Num(1), co, re) : co \in DatesEnrich, re \in DatesEnrich}

RowsEnrichOther ==
    {MkRow(Str(Txt_B), Num(2), Date(2023, 2, 1), Date(2023, 2, 15)),
     MkRow(Str(Txt_B), Num(2), Date(2023, 2, 15), NaT),
     MkRow(Str(Txt_B), Num(2), Date(2023, 3, 24), Date(2023, 3, 21))}

\* at most two rows drawn from RowsEnrich, followed by rows drawn from
\* RowsEnrichOther
TablesEnrich ==
    {[i \in 1..Len(f) |-> [f[i] EXCEPT !.idx = i - 1]] :
        f \in {g \o h : g \in Tables(RowsEnrich, 2),
                         h \in Tables(RowsEnrichOther, MaxRowsEnrich - 2)}}

InitEnrich == InitWith(TablesEnrich, {2}, Todays)

NextEnrich == Call_dataEnrich

SpecEnrich == InitEnrich /\ [][NextEnrich]_vars

\* C1: after dataEnrich, every output row in which both Book checkout and
\* Book Returned are non-null has loan_duration >= 0.
C1_DurationNonNegative ==
    (op = "dataEnrich") =>
        \A j \in 1..Len(df) :
            (notna(df[j].Book_checkout) /\ notna(df[j].Book_Returned))
                => (df[j].loan_duration.t = "num" /\ df[j].loan_duration.n >= 0)

\* C1 witness: an input row was returned before it was checked out, and its
\* output row has a positive duration
C1_Witness ==
    /\ op = "dataEnrich"
    /\ \E i \in 1..Len(arg) :
          /\ arg[i].Book_checkout.t = "date" /\ arg[i].Book_Returned.t = "date"
          /\ Ordinal(arg[i].Book_Returned) < Ordinal(arg[i].Book_checkout)
          /\ IsPositive(df[i].loan_duration)

\* row i of the input has both dates and was returned before its checkout
Reversed(t, i) ==
    /\ t[i].Book_checkout.t = "date" /\ t[i].Book_Returned.t = "date"
    /\ Ordinal(t[i].Book_Returned) < Ordinal(t[i].Book_checkout)

\* C6: for every row with both dates present and Book Returned earlier than
\* Book checkout, the output row's Book checkout is the input row's Book
\* Returned, its Book Returned is the input row's Book checkout, and its
\* loan_duration is the positive number of days between them (checkout
\* 2023-03-24, return 2023-03-21 gives 3 with the dates exchanged).
C6_SwapCorrect ==
    (op = "dataEnrich") =>
        \A i \in 1..Len(arg) :
            Reversed(arg, i) =>
                LET out == RowAt(df, arg[i].idx)
                IN  /\ HasLabel(df, arg[i].idx)
                    /\ out.Book_checkout = arg[i].Book_Returned
                    /\ out.Book_Returned = arg[i].Book_checkout
                    /\ out.loan_duration =
                          Num(Ordinal(arg[i].Book_checkout)
                                - Ordinal(arg[i].Book_Returned))
                    /\ out.loan_duration.n > 0
                    /\ (arg[i].Book_checkout = Date(2023, 3, 24)
                          /\ arg[i].Book_Returned = Date(2023, 3, 21))
                        => out.loan_duration = Num(3)

\* C6 witness: the row checked out 2023-03-24 and returned 2023-03-21 was
\* enriched next to a row that needed no exchange
C6_Witness ==
    /\ op = "dataEnrich"
    /\ Len(arg) = 2
    /\ arg[1].Book_checkout = Date(2023, 3, 24)
    /\ arg[1].Book_Returned = Date(2023, 3, 21)
    /\ df[1].Book_checkout = Date(2023, 3, 21)
    /\ df[1].loan_duration = Num(3)
    /\ ~Reversed(arg, 2) /\ notna(arg[2].Book_Returned)

EnrichColumns ==
    {"loan_duration", "negative_duration_flag", "checkout_date_iso",
     "return_date_iso", "expected_return_date", "overdue_days", "is_overdue"}

C11_ReturnedLoanOverdue ==
    (op = "dataEnrich") =>
        \A j \in 1..Len(df) :
            (df[j].Book_checkout.t = "date" /\ df[j].Book_Returned.t = "date")
              => /\ df[j].expected_return_date.t = "date"
                 /\ Ordinal(df[j].expected_return_date)
                       = Ordinal(df[j].Book_checkout) + 14
                 /\ df[j].overdue_days
                       = Num(Ordinal(df[j].Book_Returned)
                               - Ordinal(df[j].expected_return_date))
                 /\ df[j].is_overdue = (df[j].overdue_days.n > 0)
                 /\ (df[j].Book_checkout = Date(2023, 2, 1)
                       /\ df[j].Book_Returned = Date(2023, 2, 20))
                     => /\ df[j].expected_return_date = Date(2023, 2, 15)
                        /\ df[j].overdue_days = Num(5)
                        /\ df[j].is_overdue = TRUE
                 /\ (df[j].Book_Returned = df[j].expected_return_date)
                     => df[j].is_overdue = FALSE

\* C11 witness: the loan of 2023-02-01 returned 2023-02-20 is overdue by 5
\* days next to a loan returned on its expected date, which is not overdue
C11_Witness ==
    /\ op = "dataEnrich"
    /\ Len(df) = 2
    /\ arg[1].Book_checkout = Date(2023, 2, 1)
    /\ arg[1].Book_Returned = Date(2023, 2, 20)
    /\ df[1].overdue_days = Num(5) /\ df[1].is_overdue = TRUE
    /\ arg[2].Book_checkout = Date(2023, 2, 1)
    /\ arg[2].Book_Returned = Date(2023, 2, 15)
    /\ df[2].overdue_days = Num(0) /\ df[2].is_overdue = FALSE

\* C12: for every row with Book checkout present and Book Returned null,
\* overdue_days is the number of days from expected_return_date (checkout +
\* 14 days) to the processing date, and is_overdue is true exactly when
\* that number is positive: false when the expected return date is the
\* processing date or later.
C12_OpenLoanOverdue ==
    (op = "dataEnrich") =>
        \A i \in 1..Len(arg) :
            (arg[i].Book_checkout.t = "date" /\ isna(arg[i].Book_Returned))
              => LET out == RowAt(df, arg[i].idx)
                     due == Ordinal(arg[i].Book_checkout) + 14
                 IN  /\ isna(out.Book_Returned)
                     /\ Ordinal(out.expected_return_date) = due
                     /\ out.overdue_days = Num(Ordinal(today) - due)
                     /\ out.is_overdue = (Ordinal(today) > due)
                     /\ (due >= Ordinal(today)) => out.is_overdue = FALSE

\* C12 witness: on 2023-03-01 the open loan of 2023-02-01 is 14 days
\* overdue and the open loan of 2023-02-15, due that day, is not overdue
C12_Witness ==
    /\ op = "dataEnrich"
    /\ today = Date(2023, 3, 1)
    /\ Len(df) = 2
    /\ arg[1].Book_checkout = Date(2023, 2, 1) /\ isna(arg[1].Book_Returned)
    /\ df[1].overdue_days = Num(14) /\ df[1].is_overdue = TRUE
    /\ arg[2].Book_checkout = Date(2023, 2, 15) /\ isna(arg[2].Book_Returned)
    /\ df[2].overdue_days = Num(0) /\ df[2].is_overdue = FALSE

----------------------------------------------------------------------------
(* The four stages called on raw tables, in any order run_pipeline or a     *)
(* test can call them: duplicateCheck and naCheck on text dates,            *)
(* dateCleaner once, dataEnrich on its result.                              *)

MaxRows == 2

RowsRaw ==
    {MkRow(b, c, co, re) :
        b \in {NaN, Str(Txt_A)},
        c \in {NaN, Num(1)},
        co \in {NaN, Str(Quoted(DMY(<<"1", "0">>, <<"0", "4">>, Y2063))),
                Str(DMY(<<"3", "2">>, <<"0", "5">>, Y2023))},
        re \in {NaN, Str(DMY(<<"0", "1">>, <<"0", "5">>, Y2023))}}
      \ {MkRow(NaN, NaN, NaN, NaN)}

Init == InitWith(Tables(RowsRaw, MaxRows), PandasBuilds, Todays)

Next ==
    \/ Call_duplicateCheck
    \/ Call_naCheck
    \/ Call_dateCleaner
    \/ Call_dataEnrich

Spec == Init /\ [][Next]_vars

\* C2: dateCleaner and dataEnrich each return a table with exactly as many
\* rows as their input, for every input (rows with missing, unparseable or
\* reversed dates included); among the four stages only duplicateCheck and
\* naCheck can reduce the row count.
C2_RowCountPreserved ==
    /\ (op \in {"dateCleaner", "dataEnrich"}) =>
          (~raised /\ Len(df) = Len(arg))
    /\ (Len(df) < Len(arg)) => (op \in {"duplicateCheck", "naCheck"})

----------------------------------------------------------------------------
(* dateCleaner called on raw tables: one row has a date field drawn from    *)
(* DateTexts, the other fields and rows are drawn from small sets.          *)

MaxRowsDate == 2

DayTexts == {<<"3", "2">>, <<"3", "1">>, <<"3", "0">>, <<"2", "9">>,
             <<"1", "0">>, <<"1">>}

MonthTexts == {<<"0", "5">>, <<"0", "2">>, <<"0", "4">>, <<"0", "6">>,
               <<"1", "3">>, <<"5">>}

YearTexts == {Y2023, Y2063, Y2062, <<"2", "0", "2", "4">>,
              <<"3", "0", "0", "0">>, <<"2", "3">>}

PlainDateTexts ==
    {DMY(d, m, y) : d \in DayTexts, m \in MonthTexts, y \in YearTexts}

OddTexts ==
    {<<>>, <<" ">>, Txt_nan, Txt_NaN, Quoted(<<>>), Quoted(Txt_nan),
     <<"a", "b", "c">>, <<"1", "0", "/", "0", "4">>,
     <<"1", "/", "2", "/", "3", "/", "4">>, Y2063,
     <<" ">> \o DMY(<<"1", "0">>, <<"0", "4">>, Y2023) \o <<" ">>,
     <<"1", "0", "-", "0", "4", "-", "2", "0", "2", "3">>,
     DMY(<<"0", "0">>, <<"0", "5">>, Y2023),
     DMY(<<"1", "0">>, <<"0", "0">>, Y2023),
     <<"2", "0", "6", "2", "0", "6", "3">>, DMY(Y2063, Y2062, Y2063)}

DateTexts ==
    {NaN} \cup {Str(s) : s \in PlainDateTexts}
          \cup {Str(Quoted(s)) : s \in PlainDateTexts}
          \cup {Str(s) : s \in OddTexts}

OtherDateTexts ==
    {NaN, Str(DMY(<<"0", "5">>, <<"0", "3">>, Y2023)), Str(<<"x">>)}

RowsDateRich ==
    {MkRow(Str(Txt_A), Num(1), co, re) :
        co \in DateTexts, re \in OtherDateTexts}
    \cup {MkRow(Str(Txt_A), Num(1), co, re) :
        co \in OtherDateTexts, re \in DateTexts}

RowsDateOther ==
    {MkRow(Str(Txt_B), Num(2), co, re) :
        co \in {NaN, Str(DMY(<<"0", "1">>, <<"0", "3">>, Y2023))},
        re \in {NaN, Str(DMY(<<"0", "5">>, <<"0", "3">>, Y2023))}}

TablesDate ==
    {[i \in 1..Len(f) |-> [f[i] EXCEPT !.idx = i - 1]] :
        f \in {<<r>> \o g : r \in RowsDateRich,
                            g \in Tables(RowsDateOther, MaxRowsDate - 1)}}

InitDate == InitWith(TablesDate, PandasBuilds, {Date(2023, 3, 1)})

NextDate == Call_dateCleaner

SpecDate == InitDate /\ [][NextDate]_vars


\* the column that keeps the text of a date column
RawCol(c) == IF c = "Book_checkout" THEN "Book_checkout_raw"
                                    ELSE "Book_Returned_raw"

\* the text s has the shape D/M/YYYY or DD/MM/YYYY and names a calendar date
ValidDateText(s) ==
    LET parts == split(s, "/")
    IN  /\ Len(parts) = 3
        /\ IsDigits(parts[1]) /\ Len(parts[1]) <= 2
        /\ IsDigits(parts[2]) /\ Len(parts[2]) <= 2
        /\ IsDigits(parts[3]) /\ Len(parts[3]) = 4
        /\ ValidYMD(ParseNat(parts[3]), ParseNat(parts[2]), ParseNat(parts[1]))

\* the date a valid text denotes
DateOfText(s) ==
    LET parts == split(s, "/")
    IN  Date(ParseNat(parts[3]), ParseNat(parts[2]), ParseNat(parts[1]))

\* C8: in each date field every occurrence of 2063 or 2062 is replaced by
\* 2023 before parsing: the repaired text holds neither substring, a text
\* d/m/2063 or d/m/2062 is repaired and parsed exactly as d/m/2023 is,
\* '10/04/2063' with or without quote characters becomes 2023-04-10, and a
\* text holding neither substring is not changed by this step.
C8_YearTypoRepair ==
    (op = "dateCleaner" /\ ~raised) =>
        \A i \in 1..Len(arg) : \A c \in DateCols :
            LET in == strip_quotes(arg[i][c], pandas)
                raw == df[i][RawCol(c)]
                parts == split(in.s, "/")
            IN  (in.t = "str") =>
                  /\ raw.t = "str"
                  /\ ~Contains(raw.s, Y2063) /\ ~Contains(raw.s, Y2062)
                  /\ (~Contains(in.s, Y2063) /\ ~Contains(in.s, Y2062))
                        => raw = fix_impossible(in)
                  /\ (/\ Len(parts) = 3 /\ parts[3] \in {Y2063, Y2062}
                      /\ \A k \in 1..2 : /\ ~Contains(parts[k], Y2063)
                                          /\ ~Contains(parts[k], Y2062))
                        => /\ raw = fix_impossible(
                                      Str(DMY(parts[1], parts[2], Y2023)))
                           /\ df[i][c] = to_datetime(fix_impossible(
                                  Str(DMY(parts[1], parts[2], Y2023))), pandas)
                  /\ (in.s = DMY(<<"1", "0">>, <<"0", "4">>, Y2063))
                        => df[i][c] = Date(2023, 4, 10)

\* C8 witness: the quoted text "10/04/2063" was cleaned to 2023-04-10
C8_Witness ==
    /\ op = "dateCleaner" /\ ~raised
    /\ \E i \in 1..Len(arg) :
          /\ arg[i].Book_checkout =
                Str(Quoted(DMY(<<"1", "0">>, <<"0", "4">>, Y2063)))
          /\ df[i].Book_checkout = Date(2023, 4, 10)

\* the day a repaired combination is moved to
RepairedDay(d, m) ==
    CASE d = <<"3", "2">> /\ m = <<"0", "5">> -> <<"3", "1">>
      [] d = <<"3", "1">> /\ m = <<"0", "2">> -> <<"2", "8">>
      [] d = <<"3", "1">> /\ m = <<"0", "4">> -> <<"3", "0">>
      [] OTHER -> d

\* C9: for any year, day 32 of month 05 becomes day 31, day 31 of month 02
\* becomes day 28 and day 31 of month 04 becomes day 30, and with a
\* four-digit year a Timestamp can hold the field is that date
\* ('32/05/2023' -> 2023-05-31, '31/02/2023' -> 2023-02-28, '31/04/2023' ->
\* 2023-04-30); every other text is left as it is, and when it is not a
\* valid date (30/02, 31/06, 32 of another month, month 13, ...) the field
\* becomes null.
C9_ImpossibleDayRepair ==
    (op = "dateCleaner" /\ ~raised) =>
        \A i \in 1..Len(arg) : \A c \in DateCols :
            LET in == fix_year(strip_quotes(arg[i][c], pandas))
                raw == df[i][RawCol(c)]
                parts == split(in.s, "/")
                fixed == Len(parts) = 3
                           /\ RepairedDay(parts[1], parts[2]) # parts[1]
            IN  (in.t = "str") =>
                  /\ fixed =>
                        /\ raw = Str(DMY(RepairedDay(parts[1], parts[2]),
                                         parts[2], parts[3]))
                        /\ (MatchesYear(parts[3])
                              /\ InTimestampBounds(DateOfText(raw.s), pandas))
                            => df[i][c] = DateOfText(raw.s)
                  /\ ~fixed =>
                        /\ raw = in
                        /\ ~ValidDateText(in.s) => df[i][c] = NaT
                  /\ (in.s = DMY(<<"3", "2">>, <<"0", "5">>, Y2023))
                        => df[i][c] = Date(2023, 5, 31)
                  /\ (in.s = DMY(<<"3", "1">>, <<"0", "2">>, Y2023))
                        => df[i][c] = Date(2023, 2, 28)
                  /\ (in.s = DMY(<<"3", "1">>, <<"0", "4">>, Y2023))
                        => df[i][c] = Date(2023, 4, 30)

\* C9 witness: '31/02/2023' was repaired to 2023-02-28 in the return field
\* of a row
C9_Witness ==
    /\ op = "dateCleaner" /\ ~raised
    /\ \E i \in 1..Len(arg) :
          /\ arg[i].Book_Returned = Str(DMY(<<"3", "1">>, <<"0", "2">>, Y2023))
          /\ df[i].Book_Returned = Date(2023, 2, 28)

\* a date value that counts as missing: null, or '', 'nan' or 'NaN' once
\* quotes and whitespace are stripped
DateMissing(v) ==
    \/ v = NaN
    \/ v.t = "str" /\ strip(str_replace(v.s, Quote, <<>>)) \in BlankTokens

\* C10: dateCleaner never fails on a date value: it returns, every row is
\* retained, and each typed date field is null exactly when the input is
\* missing or its repaired text is not a valid DD/MM/YYYY calendar date,
\* and is otherwise the date the repaired text denotes.
C10_NeverFails ==
    (op = "dateCleaner") =>
        /\ ~raised
        /\ Index(df) = Index(arg)
        /\ \A i \in 1..Len(arg) : \A c \in DateCols :
              LET rep == repaired_text(arg[i][c], pandas)
                  valid == ~DateMissing(arg[i][c]) /\ ValidDateText(rep.s)
              IN  /\ (df[i][c] = NaT) <=> ~valid
                  /\ valid => df[i][c] = DateOfText(rep.s)

\* C16 as claimed: 'Book checkout_raw' and 'Book Returned_raw' hold, for
\* every row, the text the field held on entry to dateCleaner, before quote
\* stripping, year-typo substitution and impossible-day repair.
C16_RawTextRetained ==
    (op = "dateCleaner" /\ ~raised) =>
        \A i \in 1..Len(arg) : \A c \in DateCols :
            df[i][RawCol(c)] = arg[i][c]

----------------------------------------------------------------------------
(* A DEMetrics object in the hands of a caller that assigns its counts and  *)
(* calls its methods, as TestDEMetrics does.                                *)

MaxCalls == 3
MaxCount == 2

\* m.<field> = n
Assign(f, n) ==
    /\ pc = "idle"
    /\ Len(log) < MaxCalls
    /\ metrics' = [metrics EXCEPT !.books[f] = n]
    /\ log' = Append(log, [call |-> "assign", field |-> f, value |-> n])
    /\ op' = "assign"
    /\ UNCHANGED <<df, arg, raised, pandas, today, swapped_count, passed,
                   files, customers_df, columns, pc, report, sink, result>>

Call_calculate_totals ==
    /\ pc = "idle"
    /\ Len(log) < MaxCalls
    /\ metrics' = [metrics EXCEPT !.books = calculate_totals(@)]
    /\ log' = Append(log, [call |-> "calculate_totals"])
    /\ op' = "calculate_totals"
    /\ UNCHANGED <<df, arg, raised, pandas, today, swapped_count, passed,
                   files, customers_df, columns, pc, report, sink, result>>

\* lines 352-370: calculate_totals, then the printed summary
Call_print_summary ==
    /\ pc = "idle"
    /\ Len(log) < MaxCalls
    /\ metrics' = [metrics EXCEPT !.books = calculate_totals(@)]
    /\ log' = Append(log, [call |-> "print_summary"])
    /\ op' = "print_summary"
    /\ UNCHANGED <<df, arg, raised, pandas, today, swapped_count, passed,
                   files, customers_df, columns, pc, report, sink, result>>

Call_to_dict ==
    /\ pc = "idle"
    /\ Len(log) < MaxCalls
    /\ metrics' = [metrics EXCEPT !.books = calculate_totals(@)]
    /\ report' = to_dict(metrics.books)
    /\ log' = Append(log, [call |-> "to_dict"])
    /\ op' = "to_dict"
    /\ UNCHANGED <<df, arg, raised, pandas, today, swapped_count, passed,
                   files, customers_df, columns, pc, sink, result>>

InitMetrics == InitWith({<<>>}, {2}, {Date(2023, 3, 1)})

NextMetrics ==
    \/ \E f \in CountFields : \E n \in 0..MaxCount : Assign(f, n)
    \/ Call_calculate_totals
    \/ Call_print_summary
    \/ Call_to_dict

SpecMetrics == InitMetrics /\ [][NextMetrics]_vars

\* the value last assigned to attribute f in the history h (0, the value
\* of the constructor, when it was never assigned)
RECURSIVE LastAssigned(_, _)
LastAssigned(h, f) ==
    IF h = <<>> THEN 0
    ELSE LET e == h[Len(h)]
         IN  IF e.call = "assign" /\ e.field = f THEN e.value
             ELSE LastAssigned(SubSeq(h, 1, Len(h) - 1), f)

\* C13: calculate_totals sets total_dropped = initial_rows - final_rows and
\* retention_rate = final_rows / initial_rows * 100 when initial_rows > 0,
\* and sets retention_rate = 0 without raising when initial_rows = 0;
\* to_dict reports totals recomputed from the current counts, and its
\* initial_records, final_records, duplicates_removed and na_removed are
\* the values last assigned.
C13_TotalsComputed ==
    LET m == metrics.books
        initial == LastAssigned(log, "initial_rows")
        final == LastAssigned(log, "final_rows")
    IN  /\ (op \in {"calculate_totals", "print_summary", "to_dict"}) =>
              /\ ~raised
              /\ m.total_dropped = initial - final
              /\ (initial > 0) =>
                    m.retention_rate.num * initial
                        = final * 100 * m.retention_rate.den
              /\ (initial = 0) => m.retention_rate = [num |-> 0, den |-> 1]
        /\ (op = "to_dict") =>
              /\ report.total_dropped = initial - final
              /\ (initial = 0) => report.retention_rate
                                    = Str(<<"0", ".", "0", "%">>)
              /\ report.initial_records = initial
              /\ report.final_records = final
              /\ report.duplicates_removed
                    = LastAssigned(log, "duplicates_removed")
              /\ report.na_removed = LastAssigned(log, "na_removed")

\* C13 witness: totals were computed on an object with initial_rows = 0,
\* final_rows was assigned afterwards, and to_dict reports the totals of
\* the new counts with a retention rate of 0
C13_Witness ==
    /\ op = "to_dict"
    /\ Len(log) = 3
    /\ log[1].call = "calculate_totals"
    /\ log[2] = [call |-> "assign", field |-> "final_rows", value |-> 2]
    /\ report.total_dropped = -2
    /\ report.retention_rate = Str(<<"0", ".", "0", "%">>)

----------------------------------------------------------------------------
(* run_pipeline, step by step.  A file is NoFile (the path does not exist)  *)
(* or a record of the columns and rows read_csv delivers.                   *)

\* dropna with how='any': the rows with a value in every column
dropna_any(rows, cols) ==
    BoolIndex(rows, [i \in 1..Len(rows) |->
                        \A c \in cols : notna(rows[i][c])])

\* df.dropna(how='all') (lines 57-66, 450): the rows with a value in at
\* least one column, under their index labels
dropna_all(rows, cols) ==
    BoolIndex(rows, [i \in 1..Len(rows) |->
                        \E c \in cols : notna(rows[i][c])])

\* the columns a stage reads; a column that is absent raises KeyError
StageColumns(stage) ==
    CASE stage = "duplicateCheck" -> {"Books", "Customer_ID", "Book_checkout"}
      [] stage = "naCheck" -> {"Books", "Customer_ID"}
      [] stage = "dateCleaner" -> {"Book_checkout", "Book_Returned", "Books"}
      [] stage = "dataEnrich" -> {"Book_Returned", "Book_checkout"}

KeyError(stage, cols) == ~(StageColumns(stage) \subseteq cols)

CustomerColumns == {"Customer_ID", "Customer_Name"}

OutputDir == "output"
BooksCsv == "books_cleaned_final.csv"
CustomersCsv == "customers_cleaned_final.csv"
MetricsCsv == "processing_metrics.csv"

\* run_pipeline stops with the exception of the step at hand
Run_raise ==
    /\ pc' = "raised"
    /\ raised' = TRUE

\* lines 410-421: the output folder, the two trackers, fileLoader and the
\* first count
Run_fileLoader ==
    /\ pc = "start"
    /\ sink' = sink \cup {OutputDir}
    /\ IF files.books = NoFile \/ files.customers = NoFile
       THEN /\ Run_raise
            /\ UNCHANGED <<df, customers_df, columns, metrics, log>>
       ELSE /\ df' = dropna_all(files.books.rows, files.books.columns)
            /\ columns' = files.books.columns
            /\ customers_df' = dropna_all(files.customers, CustomerColumns)
            /\ metrics' = [metrics EXCEPT !.books.initial_rows =
                    Len(dropna_all(files.books.rows, files.books.columns))]
            /\ log' = Append(log, [call |-> "fileLoader"])
            /\ pc' = "duplicateCheck"
            /\ UNCHANGED raised
    /\ UNCHANGED <<arg, op, pandas, today, swapped_count, passed, files,
                   report, result>>

\* lines 424-426
Run_duplicateCheck ==
    /\ pc = "duplicateCheck"
    /\ arg' = df
    /\ op' = "duplicateCheck"
    /\ IF KeyError("duplicateCheck", columns)
       THEN /\ Run_raise
            /\ passed' = df
            /\ UNCHANGED <<df, metrics, log>>
       ELSE /\ df' = duplicateCheck(df)
            /\ passed' = input_after_copy(df, df)
            /\ metrics' = [metrics EXCEPT
                    !.books.rows_after_duplicates = Len(duplicateCheck(df)),
                    !.books.duplicates_removed =
                        metrics.books.initial_rows - Len(duplicateCheck(df))]
            /\ log' = Append(log, [call |-> "duplicateCheck"])
            /\ pc' = "naCheck"
            /\ UNCHANGED raised
    /\ UNCHANGED <<pandas, today, swapped_count, files, customers_df,
                   columns, report, sink, result>>

\* the naCheck step given the table fileLoader delivered instead of the
\* table duplicateCheck returned
Run_naCheck_on_loaded ==
    /\ pc = "naCheck"
    /\ arg' = dropna_all(files.books.rows, files.books.columns)
    /\ op' = "naCheck"
    /\ df' = naCheck(dropna_all(files.books.rows, files.books.columns), pandas)
    /\ passed' = dropna_all(files.books.rows, files.books.columns)
    /\ metrics' = [metrics EXCEPT
            !.books.rows_after_na = Len(df'),
            !.books.na_removed =
                metrics.books.rows_after_duplicates - Len(df')]
    /\ log' = Append(log, [call |-> "naCheck"])
    /\ pc' = "dateCleaner"
    /\ UNCHANGED <<raised, pandas, today, swapped_count, files, customers_df,
                   columns, report, sink, result>>

\* lines 429-431
Run_naCheck ==
    /\ pc = "naCheck"
    /\ arg' = df
    /\ op' = "naCheck"
    /\ IF KeyError("naCheck", columns)
       THEN /\ Run_raise
            /\ passed' = df
            /\ UNCHANGED <<df, metrics, log>>
       ELSE /\ df' = naCheck(df, pandas)
            /\ passed' = input_after_copy(df,
                    [i \in 1..Len(df) |-> naCheck_normalise(df[i], pandas)])
            /\ metrics' = [metrics EXCEPT
                    !.books.rows_after_na = Len(naCheck(df, pandas)),
                    !.books.na_removed =
                        metrics.books.rows_after_duplicates
                            - Len(naCheck(df, pandas))]
            /\ log' = Append(log, [call |-> "naCheck"])
            /\ pc' = "dateCleaner"
            /\ UNCHANGED raised
    /\ UNCHANGED <<pandas, today, swapped_count, files, customers_df,
                   columns, report, sink, result>>

\* lines 434-437
Run_dateCleaner ==
    /\ pc = "dateCleaner"
    /\ arg' = df
    /\ op' = "dateCleaner"
    /\ IF KeyError("dateCleaner", columns) \/ dateCleaner_raises(df, pandas)
       THEN /\ Run_raise
            /\ passed' = df
            /\ UNCHANGED <<df, metrics, log>>
       ELSE /\ df' = dateCleaner(df, pandas)
            /\ passed' = input_after_copy(df, dateCleaner(df, pandas))
            /\ metrics' = [metrics EXCEPT
                    !.books.rows_after_cleaning = Len(dateCleaner(df, pandas)),
                    !.books.invalid_dates_removed =
                        metrics.books.rows_after_na
                            - Len(dateCleaner(df, pandas))]
            /\ log' = Append(log, [call |-> "dateCleaner"])
            /\ pc' = "dataEnrich"
            /\ UNCHANGED raised
    /\ UNCHANGED <<pandas, today, swapped_count, files, customers_df,
                   columns, report, sink, result>>

\* lines 440-443
Run_dataEnrich ==
    /\ pc = "dataEnrich"
    /\ arg' = df
    /\ op' = "dataEnrich"
    /\ df' = dataEnrich(df, today)
    /\ passed' = input_after_copy(df, dataEnrich(df, today))
    /\ swapped_count' = count_swapped(df)
    /\ metrics' = [metrics EXCEPT
            !.books.final_rows = Len(dataEnrich(df, today)),
            !.books.negative_duration_removed =
                metrics.books.rows_after_cleaning
                    - Len(dataEnrich(df, today))]
    /\ log' = Append(log, [call |-> "dataEnrich"])
    /\ pc' = "customers"
    /\ UNCHANGED <<raised, pandas, today, files, customers_df, columns,
                   report, sink, result>>

\* lines 447-455
Run_customers ==
    /\ pc = "customers"
    /\ customers_df' = dropna_all(customers_df, CustomerColumns)
    /\ metrics' = [metrics EXCEPT
            !.customers.initial_rows = Len(customers_df),
            !.customers.rows_after_duplicates = Len(customers_df),
            !.customers.rows_after_na =
                Len(dropna_all(customers_df, CustomerColumns)),
            !.customers.na_removed =
                Len(customers_df)
                    - Len(dropna_all(customers_df, CustomerColumns)),
            !.customers.rows_after_cleaning =
                Len(dropna_all(customers_df, CustomerColumns)),
            !.customers.final_rows =
                Len(dropna_all(customers_df, CustomerColumns))]
    /\ log' = Append(log, [call |-> "customers"])
    /\ pc' = "print_summary"
    /\ UNCHANGED <<df, arg, op, raised, pandas, today, swapped_count, passed,
                   files, columns, report, sink, result>>

\* lines 460-461
Run_print_summary ==
    /\ pc = "print_summary"
    /\ metrics' = [books |-> calculate_totals(metrics.books),
                   customers |-> calculate_totals(metrics.customers)]
    /\ log' = Append(log, [call |-> "print_summary"])
    /\ pc' = "save"
    /\ UNCHANGED <<df, arg, op, raised, pandas, today, swapped_count, passed,
                   files, customers_df, columns, report, sink, result>>

\* the files written when the first `written` of the three writes succeed
SavedFiles(written) ==
    (IF written >= 1 THEN {BooksCsv} ELSE {})
      \cup (IF written >= 2 THEN {CustomersCsv} ELSE {})
      \cup (IF written >= 3 THEN {MetricsCsv} ELSE {})

\* lines 469-474: three to_csv calls, each of which can fail (the folder is
\* not writable, the disk is full); no handler surrounds them
Run_save ==
    /\ pc = "save"
    /\ \E written \in 0..3 :
          /\ sink' = sink \cup SavedFiles(written)
          /\ IF written < 3
             THEN /\ Run_raise
                  /\ log' = Append(log, [call |-> "save_failed"])
             ELSE /\ pc' = "return"
                  /\ log' = Append(log, [call |-> "save"])
                  /\ UNCHANGED raised
          /\ IF written >= 2
             THEN /\ metrics' = [books |-> calculate_totals(metrics.books),
                                 customers |->
                                     calculate_totals(metrics.customers)]
                  /\ report' = <<to_dict(metrics.books),
                                 to_dict(metrics.customers)>>
             ELSE UNCHANGED <<metrics, report>>
    /\ UNCHANGED <<df, arg, op, pandas, today, swapped_count, passed, files,
                   customers_df, columns, result>>

\* line 488
Run_return ==
    /\ pc = "return"
    /\ result' = [books_df |-> df, customers_df |-> customers_df,
                  metrics |-> metrics]
    /\ pc' = "done"
    /\ UNCHANGED <<df, arg, op, raised, pandas, today, swapped_count, passed,
                   files, customers_df, columns, metrics, report, log, sink>>

\* the files run_pipeline is started on: one checkout row drawn from
\* RowsRun among rows drawn from RowsRunOther, or a checkout file that
\* lacks one of its columns, or a path that does not exist

MaxRowsRun == 3

D_10_04(y) == DMY(<<"1", "0">>, <<"0", "4">>, y)
D_01_04 == DMY(<<"0", "1">>, <<"0", "4">>, Y2023)

RowsRun ==
    {MkRow(b, c, co, re) :
        b \in {NaN, Str(Txt_A)},
        c \in {NaN, Num(1)},
        co \in {NaN, Str(Quoted(D_10_04(Y2063))), Str(D_10_04(Y2023))},
        re \in {NaN, Str(D_01_04)}}

RowsRunOther ==
    {MkRow(Str(Txt_A), Num(1), Str(D_10_04(Y2023)), NaN),
     MkRow(Str(Txt_A), Num(1), Str(D_01_04), Str(D_10_04(Y2023))),
     MkRow(NaN, Num(1), Str(D_10_04(Y2023)), Str(D_10_04(Y2023))),
     MkRow(NaN, NaN, NaN, NaN)}

TablesRun ==
    {<<>>} \cup
    {[i \in 1..Len(f) |-> [f[i] EXCEPT !.idx = i - 1]] :
        f \in {g \o <<r>> \o h :
                  r \in RowsRun,
                  g \in Tables(RowsRunOther, 1),
                  h \in Tables(RowsRunOther, MaxRowsRun - 2)}}

\* table t as a file without the columns outside cols holds it
Restrict(t, cols) ==
    [i \in 1..Len(t) |-> [f \in cols \cup {"idx"} |-> t[i][f]]]

BooksFiles ==
    {NoFile}
      \cup {[columns |-> RequiredColumns, rows |-> t] : t \in TablesRun}
      \cup {[columns |-> RequiredColumns \ {c},
             rows |-> Restrict(t, RequiredColumns \ {c})] :
                c \in RequiredColumns, t \in Tables(RowsRunOther, 2)}

CustomersFiles ==
    {NoFile,
     <<[idx |-> 0, Customer_ID |-> NaN, Customer_Name |-> NaN],
       [idx |-> 1, Customer_ID |-> Num(1), Customer_Name |-> Str(Txt_A)]>>}

InitRun ==
    /\ files \in [books : BooksFiles, customers : CustomersFiles]
    /\ pandas \in PandasBuilds
    /\ today \in Todays
    /\ df = <<>>
    /\ customers_df = <<>>
    /\ columns = {}
    /\ arg = <<>>
    /\ passed = <<>>
    /\ op = "init"
    /\ raised = FALSE
    /\ swapped_count = -1
    /\ pc = "start"
    /\ metrics = [books |-> DEMetrics("books", today),
                  customers |-> DEMetrics("customers", today)]
    /\ report = None
    /\ log = <<>>
    /\ sink = {}
    /\ result = None

NextRun ==
    \/ Run_fileLoader
    \/ Run_duplicateCheck
    \/ Run_naCheck
    \/ Run_dateCleaner
    \/ Run_dataEnrich
    \/ Run_customers
    \/ Run_print_summary
    \/ Run_save
    \/ Run_return

SpecRun == InitRun /\ [][NextRun]_vars

\* the stage has returned in this run
Completed(stage) == \E k \in 1..Len(log) : log[k].call = stage

\* C14: after duplicateCheck, naCheck, dateCleaner and dataEnrich have run
\* in that order, every row of the output table has a non-null Books or a
\* non-null Customer ID.
C14_NoRowBothMissing ==
    Completed("dataEnrich") =>
        \A j \in 1..Len(df) : notna(df[j].Books) \/ notna(df[j].Customer_ID)

\* C14 witness: the pipeline finished on a file with a row missing both key
\* fields, which is gone, and a row missing only its title, which is kept
\* with a null title
C14_Witness ==
    /\ pc = "done"
    /\ \E i \in 1..Len(files.books.rows) :
          /\ isna(files.books.rows[i].Books)
          /\ isna(files.books.rows[i].Customer_ID)
          /\ notna(files.books.rows[i].Book_checkout)
          /\ ~HasLabel(df, files.books.rows[i].idx)
    /\ \E j \in 1..Len(df) : isna(df[j].Books) /\ notna(df[j].Customer_ID)

\* C15 as claimed: after the whole core pipeline has run, no two output
\* rows have the same cleaned title, customer id and typed checkout date,
\* also when the input rows differed only in formatting or when a date swap
\* changed the checkout date.
C15_NaturalKeyUnique ==
    Completed("dataEnrich") =>
        \A i, j \in 1..Len(df) : (i < j) => KeyOf(df[i]) # KeyOf(df[j])

\* C17 as claimed: when a required column (Books, Customer ID, Book
\* checkout, Book Returned) is absent from the checkout table, run_pipeline
\* raises to its caller before duplicateCheck, naCheck, dateCleaner or
\* dataEnrich has processed the table: the run goes from the load to the
\* exception, and no stage returns a table.
C17_StructuralErrorHalts ==
    (/\ files.books # NoFile /\ files.customers # NoFile
     /\ files.books.columns # RequiredColumns)
        => /\ pc \in {"start", "duplicateCheck", "raised"}
           /\ \A stage \in {"duplicateCheck", "naCheck", "dateCleaner",
                             "dataEnrich"} : ~Completed(stage)

\* the four stages in the order of run_pipeline, on table t at processing
\* date now
Core(t, pd, now) ==
    dataEnrich(dateCleaner(naCheck(duplicateCheck(t), pd), pd), now)

\* the checkout table fileLoader delivered in this run
Loaded == dropna_all(files.books.rows, files.books.columns)

\* C19: the processing date is the only source of nondeterminism in the
\* core: a run of the four stages on the same input at another processing
\* date gives the same rows and the same value in every field, except
\* overdue_days and is_overdue of the rows whose checkout date is present
\* and whose return date is null.
C19_OnlyProcessingDate ==
    Completed("dataEnrich") =>
        /\ df = Core(Loaded, pandas, today)
        /\ \A d \in Todays :
              LET other == Core(Loaded, pandas, d)
              IN  /\ Index(other) = Index(df)
                  /\ \A j \in 1..Len(df) :
                        /\ DOMAIN other[j] = DOMAIN df[j]
                        /\ \A c \in DOMAIN df[j] :
                              (other[j][c] # df[j][c]) =>
                                  /\ c \in {"overdue_days", "is_overdue"}
                                  /\ notna(df[j].Book_checkout)
                                  /\ isna(df[j].Book_Returned)

\* C19 witness: a finished run whose output has a returned loan and an open
\* loan, and the open loan's overdue_days is another number at another
\* processing date
C19_Witness ==
    /\ pc = "done"
    /\ \E k \in 1..Len(df) :
          notna(df[k].Book_checkout) /\ notna(df[k].Book_Returned)
    /\ \E j \in 1..Len(df) : \E d \in Todays :
          /\ isna(df[j].Book_Returned)
          /\ Core(Loaded, pandas, d)[j].overdue_days # df[j].overdue_days

\* C20 as claimed: the core does not depend on the sink: when run_pipeline
\* ends after the four stages have run, whether or not writing the CSV
\* files succeeded, it has returned the cleaned table and the metrics to
\* its caller.
C20_CoreIndependentOfSink ==
    (Completed("dataEnrich") /\ pc \in {"raised", "done"}) =>
        /\ result # None
        /\ result.books_df = df
        /\ result.metrics = metrics

\* row i of the table has a value in at least one of the columns cols
HasValue(rows, i, cols) == \E c \in cols : rows[i][c] # NaN

\* table t is table rows without the rows that have no value in cols: the
\* other rows are all there, unchanged and in the same order
KeepsRowsWithValue(t, rows, cols) ==
    /\ \A i \in 1..Len(rows) :
          HasValue(rows, i, cols) <=> (\E j \in 1..Len(t) : t[j] = rows[i])
    /\ \A j \in 1..Len(t) : \E i \in 1..Len(rows) : t[j] = rows[i]
    /\ \A j, k \in 1..Len(t) : (j < k) => t[j].idx < t[k].idx

\* C21: fileLoader drops every row whose fields are all missing from the
\* books table and from the customers table and keeps every other row, so
\* the initial_rows that run_pipeline records counts the rows with at least
\* one value; when a file does not exist the exception reaches the caller
\* and no table, empty or not, is delivered.
C21_FileLoaderDropsEmptyRows ==
    /\ (pc = "duplicateCheck") =>
          /\ KeepsRowsWithValue(df, files.books.rows, files.books.columns)
          /\ KeepsRowsWithValue(customers_df, files.customers,
                                CustomerColumns)
    /\ Completed("fileLoader") =>
          metrics.books.initial_rows =
              Cardinality({i \in 1..Len(files.books.rows) :
                  HasValue(files.books.rows, i, files.books.columns)})
    /\ (pc # "start" /\ (files.books = NoFile \/ files.customers = NoFile))
          => /\ pc = "raised" /\ raised
             /\ ~Completed("fileLoader")
             /\ result = None

\* C21 witness: fileLoader has returned a checkout table without the empty
\* row of its file and with a row that has only one value
C21_Witness ==
    /\ pc = "duplicateCheck"
    /\ Len(df) = 2 /\ Len(files.books.rows) = 3
    /\ metrics.books.initial_rows = 2
    /\ \E j \in 1..Len(df) :
          /\ isna(df[j].Books) /\ isna(df[j].Customer_ID)
          /\ isna(df[j].Book_Returned) /\ notna(df[j].Book_checkout)
    /\ Len(customers_df) = 1

\* the calls of run_pipeline in program order
RunOrder ==
    <<"fileLoader", "duplicateCheck", "naCheck", "dateCleaner", "dataEnrich",
      "customers", "print_summary", "save">>

\* C22: run_pipeline is strictly sequential: duplicateCheck, naCheck,
\* dateCleaner and dataEnrich run in that order, each once and each on the
\* table the previous stage returned; the row count and the delta of a
\* stage are recorded when it has finished and before the next stage
\* starts; the CSV files are written only after the four stages and both
\* metrics records are complete.
C22_StrictlySequential ==
    LET m == metrics.books
    IN  /\ Len(log) <= Len(RunOrder)
        /\ \A k \in 1..Len(log) :
              \/ log[k].call = RunOrder[k]
              \/ k = Len(RunOrder) /\ log[k].call = "save_failed"
        /\ (pc = "naCheck") =>
              /\ df = duplicateCheck(Loaded)
              /\ m.rows_after_duplicates = Len(df)
              /\ m.duplicates_removed = Len(Loaded) - Len(df)
        /\ (pc = "dateCleaner") =>
              /\ arg = duplicateCheck(Loaded)
              /\ df = naCheck(arg, pandas)
              /\ m.rows_after_na = Len(df)
              /\ m.na_removed = Len(arg) - Len(df)
        /\ (pc = "dataEnrich") =>
              /\ arg = naCheck(duplicateCheck(Loaded), pandas)
              /\ df = dateCleaner(arg, pandas)
              /\ m.rows_after_cleaning = Len(df)
              /\ m.invalid_dates_removed = Len(arg) - Len(df)
        /\ (pc = "customers") =>
              /\ arg = dateCleaner(naCheck(duplicateCheck(Loaded), pandas),
                                   pandas)
              /\ df = dataEnrich(arg, today)
              /\ m.final_rows = Len(df)
              /\ m.negative_duration_removed = Len(arg) - Len(df)
        /\ ({BooksCsv, CustomersCsv, MetricsCsv} \cap sink # {}) =>
              /\ \A k \in 1..7 : Completed(RunOrder[k])
              /\ m.final_rows = Len(df)
              /\ metrics.customers.final_rows = Len(customers_df)

\* C22 witness: a finished run in which duplicateCheck and naCheck each
\* removed a row and the three files were written
C22_Witness ==
    /\ pc = "done"
    /\ metrics.books.duplicates_removed = 1
    /\ metrics.books.na_removed = 1
    /\ Len(df) = 1
    /\ {BooksCsv, CustomersCsv, MetricsCsv} \subseteq sink

\* C23: the books metrics run_pipeline produces satisfy
\* initial_rows >= rows_after_duplicates >= rows_after_na
\* = rows_after_cleaning = final_rows, invalid_dates_removed = 0 and
\* negative_duration_removed = 0, the four removal counts add up to
\* total_dropped, and 0 <= retention_rate <= 100.
C23_BooksMetrics ==
    Completed("print_summary") =>
        LET m == metrics.books
        IN  /\ m.initial_rows >= m.rows_after_duplicates
            /\ m.rows_after_duplicates >= m.rows_after_na
            /\ m.rows_after_na = m.rows_after_cleaning
            /\ m.rows_after_cleaning = m.final_rows
            /\ m.invalid_dates_removed = 0
            /\ m.negative_duration_removed = 0
            /\ m.duplicates_removed + m.na_removed + m.invalid_dates_removed
                    + m.negative_duration_removed = m.total_dropped
            /\ m.retention_rate.den > 0
            /\ 0 <= m.retention_rate.num
            /\ m.retention_rate.num <= 100 * m.retention_rate.den
            /\ (result # None) => result.metrics.books = m

\* C23 witness: the metrics returned by a run that removed a duplicate and
\* a row without title and customer from a table of three rows
C23_Witness ==
    /\ pc = "done"
    /\ result.metrics.books.initial_rows = 3
    /\ result.metrics.books.duplicates_removed = 1
    /\ result.metrics.books.na_removed = 1
    /\ result.metrics.books.total_dropped = 2
    /\ result.metrics.books.final_rows = 1
    /\ result.metrics.books.retention_rate = Ratio(100, 3)

\* C24: dataEnrich sets loan_duration to null exactly when Book checkout or
\* Book Returned is null, and to Book Returned - Book checkout in whole
\* days otherwise; a row with a missing date is never swapped and is kept
\* in the output.
C24_LoanDuration ==
    (op = "dataEnrich") =>
        /\ Index(df) = Index(arg)
        /\ \A j \in 1..Len(df) :
              /\ isna(df[j].loan_duration)
                    <=> (isna(df[j].Book_checkout) \/ isna(df[j].Book_Returned))
              /\ (isna(df[j].Book_checkout) \/ isna(df[j].Book_Returned))
                    <=> (isna(arg[j].Book_checkout) \/ isna(arg[j].Book_Returned))
              /\ (notna(df[j].Book_checkout) /\ notna(df[j].Book_Returned))
                    => df[j].loan_duration =
                          Num(Ordinal(df[j].Book_Returned)
                                - Ordinal(df[j].Book_checkout))
        /\ \A i \in 1..Len(arg) :
              (isna(arg[i].Book_checkout) \/ isna(arg[i].Book_Returned))
                => /\ HasLabel(df, arg[i].idx)
                   /\ RowAt(df, arg[i].idx).Book_checkout = arg[i].Book_checkout
                   /\ RowAt(df, arg[i].idx).Book_Returned = arg[i].Book_Returned

\* C24 witness: a loan without checkout date returned 2023-02-20 was
\* enriched, unchanged and without duration, next to a loan of 5 days
C24_Witness ==
    /\ op = "dataEnrich"
    /\ Len(df) = 2
    /\ isna(arg[1].Book_checkout) /\ arg[1].Book_Returned = Date(2023, 2, 20)
    /\ isna(df[1].loan_duration) /\ df[1].Book_Returned = Date(2023, 2, 20)
    /\ arg[2].Book_checkout = Date(2023, 2, 15)
    /\ arg[2].Book_Returned = Date(2023, 2, 20)
    /\ df[2].loan_duration = Num(5)

\* C25: dataEnrich changes pre-existing data only by the swap: Books,
\* Customer ID and the raw date columns of every row are unchanged, and for
\* every row that is not swapped (a date missing, or return on or after
\* checkout, including a same-day return with duration 0) Book checkout
\* and Book Returned are unchanged; everything else it does is add columns.
C25_OnlySwapChangesData ==
    (op = "dataEnrich") =>
        /\ Index(df) = Index(arg)
        /\ \A i \in 1..Len(arg) :
              /\ {"Books", "Customer_ID", "Book_checkout_raw",
                   "Book_Returned_raw"} \subseteq DOMAIN arg[i]
              /\ DOMAIN df[i] = DOMAIN arg[i] \cup EnrichColumns
              /\ DOMAIN arg[i] \cap EnrichColumns = {}
              /\ \A c \in DOMAIN arg[i] \ {"Book_checkout", "Book_Returned"} :
                    df[i][c] = arg[i][c]
              /\ ~Reversed(arg, i) =>
                    /\ df[i].Book_checkout = arg[i].Book_checkout
                    /\ df[i].Book_Returned = arg[i].Book_Returned
              /\ (notna(arg[i].Book_checkout)
                    /\ arg[i].Book_checkout = arg[i].Book_Returned)
                    => df[i].loan_duration = Num(0)

\* C25 witness: a same-day return and an open loan went through dataEnrich
\* unchanged next to a row whose dates were exchanged and whose raw
\* columns kept their text
C25_Witness ==
    /\ op = "dataEnrich"
    /\ swapped_count = 1
    /\ \E i \in 1..Len(arg) :
          /\ Reversed(arg, i)
          /\ df[i].Book_checkout = arg[i].Book_Returned
          /\ df[i].Book_checkout_raw = Str(D_10_04(Y2023))
          /\ df[i].Book_Returned_raw = Str(D_01_04)
    /\ \E i \in 1..Len(arg) :
          /\ notna(arg[i].Book_checkout)
          /\ arg[i].Book_checkout = arg[i].Book_Returned
          /\ df[i].Book_checkout = df[i].Book_Returned
          /\ df[i].loan_duration = Num(0)
    /\ \E i \in 1..Len(arg) :
          /\ notna(arg[i].Book_checkout) /\ isna(arg[i].Book_Returned)
          /\ notna(df[i].Book_checkout) /\ isna(df[i].Book_Returned)

\* C26: in the output of dataEnrich negative_duration_flag is false for
\* every row of every input: a negative duration has both dates present,
\* so the swap pass removes it before the flag is computed.
C26_FlagNeverFires ==
    (op = "dataEnrich") =>
        /\ \A i \in 1..Len(arg) :
              IsNegative(DaysBetween(arg[i].Book_Returned, arg[i].Book_checkout))
                => /\ notna(arg[i].Book_checkout) /\ notna(arg[i].Book_Returned)
                   /\ swap_mask(arg)[i]
        /\ \A j \in 1..Len(df) :
              /\ df[j].negative_duration_flag = FALSE
              /\ ~IsNegative(df[j].loan_duration)

\* C26 witness: a row returned before its checkout and an open loan both
\* come out with the flag false
C26_Witness ==
    /\ op = "dataEnrich"
    /\ Len(arg) = 2
    /\ Reversed(arg, 1)
    /\ isna(arg[2].Book_Returned) /\ notna(arg[2].Book_checkout)
    /\ df[1].negative_duration_flag = FALSE
    /\ df[2].negative_duration_flag = FALSE
    /\ IsPositive(df[1].loan_duration)

\* C27: in the output of dataEnrich a row whose Book checkout is null has
\* null expected_return_date and null overdue_days even when its return
\* date is present; is_overdue is false for every row whose overdue_days
\* is null, and is_overdue is never null.
C27_NoCheckoutNoOverdue ==
    (op = "dataEnrich") =>
        \A j \in 1..Len(df) :
            /\ isna(df[j].Book_checkout) =>
                  /\ isna(df[j].expected_return_date)
                  /\ isna(df[j].overdue_days)
            /\ isna(df[j].overdue_days) => df[j].is_overdue = FALSE
            /\ df[j].is_overdue \in BOOLEAN

\* C27 witness: a row without checkout date returned 2023-03-24, long
\* before the processing date, has no expected return date and no overdue
\* days and is not overdue
C27_Witness ==
    /\ op = "dataEnrich"
    /\ today = Date(2023, 6, 20)
    /\ \E j \in 1..Len(df) :
          /\ isna(arg[j].Book_checkout)
          /\ df[j].Book_Returned = Date(2023, 3, 24)
          /\ isna(df[j].expected_return_date)
          /\ isna(df[j].overdue_days)
          /\ df[j].is_overdue = FALSE

\* the number of rows of t without a title
MissingTitles(t) == Cardinality({i \in 1..Len(t) : isna(t[i].Books)})

\* C28: dateCleaner changes Books only by stripping surrounding whitespace
\* and leaves Customer ID untouched: a row whose Books is missing on entry
\* has a missing (null) Books on exit, so the number of rows with a
\* missing title is the same before and after date cleaning.
C28_BooksOnlyStripped ==
    (op = "dateCleaner" /\ ~raised) =>
        /\ Index(df) = Index(arg)
        /\ \A i \in 1..Len(arg) :
              /\ df[i].Customer_ID = arg[i].Customer_ID
              /\ isna(arg[i].Books) => isna(df[i].Books)
              /\ notna(arg[i].Books) => df[i].Books = str_strip(arg[i].Books)
        /\ MissingTitles(df) = MissingTitles(arg)

\* cell iso is the text YYYY-MM-DD of the date v, or null when v is null
IsIsoOf(iso, v) ==
    IF isna(v) THEN isna(iso)
    ELSE /\ iso.t = "str"
         /\ Len(iso.s) = 10
         /\ iso.s[5] = "-" /\ iso.s[8] = "-"
         /\ IsDigits(SubSeq(iso.s, 1, 4)) /\ ParseNat(SubSeq(iso.s, 1, 4)) = v.y
         /\ IsDigits(SubSeq(iso.s, 6, 7)) /\ ParseNat(SubSeq(iso.s, 6, 7)) = v.m
         /\ IsDigits(SubSeq(iso.s, 9, 10)) /\ ParseNat(SubSeq(iso.s, 9, 10)) = v.d

\* C29: in the output of dataEnrich checkout_date_iso and return_date_iso
\* are the YYYY-MM-DD text of the stored Book checkout and Book Returned of
\* the same row as they stand after any swap, each null exactly when the
\* stored date is null; for a swapped row the ISO fields agree with the
\* typed dates while the raw date columns still hold the unswapped text.
C29_IsoOfStoredDates ==
    (op = "dataEnrich") =>
        \A i \in 1..Len(df) :
            /\ IsIsoOf(df[i].checkout_date_iso, df[i].Book_checkout)
            /\ IsIsoOf(df[i].return_date_iso, df[i].Book_Returned)
            /\ isna(df[i].checkout_date_iso) <=> isna(df[i].Book_checkout)
            /\ isna(df[i].return_date_iso) <=> isna(df[i].Book_Returned)
            /\ Reversed(arg, i) =>
                  /\ IsIsoOf(df[i].checkout_date_iso, arg[i].Book_Returned)
                  /\ IsIsoOf(df[i].return_date_iso, arg[i].Book_checkout)
                  /\ df[i].Book_checkout_raw = arg[i].Book_checkout_raw
                  /\ df[i].Book_Returned_raw = arg[i].Book_Returned_raw
                  /\ to_datetime(df[i].Book_checkout_raw, pandas)
                        = df[i].Book_Returned
                  /\ to_datetime(df[i].Book_Returned_raw, pandas)
                        = df[i].Book_checkout

\* C29 witness: the loan entered as checked out 32/05/2023 and returned
\* 01/05/2023 is stored as 2023-05-01 to 2023-05-31 with matching ISO
\* texts, its raw columns still in the order entered, next to an open loan
\* with a null return_date_iso
C29_Witness ==
    /\ op = "dataEnrich"
    /\ Len(df) = 2
    /\ Reversed(arg, 1)
    /\ df[1].Book_checkout = Date(2023, 5, 1)
    /\ df[1].checkout_date_iso =
          Str(<<"2", "0", "2", "3", "-", "0", "5", "-", "0", "1">>)
    /\ df[1].return_date_iso =
          Str(<<"2", "0", "2", "3", "-", "0", "5", "-", "3", "1">>)
    /\ df[1].Book_checkout_raw = Str(DMY(<<"3", "1">>, <<"0", "5">>, Y2023))
    /\ df[1].Book_Returned_raw = Str(DMY(<<"0", "1">>, <<"0", "5">>, Y2023))
    /\ notna(df[2].Book_checkout) /\ isna(df[2].Book_Returned)
    /\ isna(df[2].return_date_iso) /\ notna(df[2].checkout_date_iso)

----------------------------------------------------------------------------
(* The strict-drop variant, Library_Data_Pipeline.py: clean_dataframe       *)
(* followed by standardize_dates, as its main calls them.                   *)

\* remove_empty_rows: dropna(subset=['Books', 'Customer ID'], how='all')
remove_empty_rows(t) ==
    BoolIndex(t, [i \in 1..Len(t) |->
                    notna(t[i].Books) \/ notna(t[i].Customer_ID)])

\* remove_duplicates: drop_duplicates on Books, Customer ID and Book
\* checkout, keep='first'
remove_duplicates(t) ==
    BoolIndex(t, [i \in 1..Len(t) |-> ~duplicated(t)[i]])

\* clean_date_formatting, one cell: astype(str), then the two replace calls
clean_date_formatting(v, pd) ==
    series_str_replace(
        series_str_replace(astype_str(v, pd), <<"\"", "\"", "\"">>, <<>>),
        <<"\"">>, <<>>)

\* clean_text_fields, one cell
clean_text_fields(v, pd) == str_strip(astype_str(v, pd))

\* fix_future_dates, one cell
fix_future_dates(v, pd) ==
    series_str_replace(astype_str(v, pd), <<"2", "0", "6", "3">>,
                       <<"2", "0", "2", "3">>)

\* the three cell-wise steps of clean_dataframe on one row
clean_row(r, pd) ==
    [r EXCEPT
        !.Book_checkout =
            fix_future_dates(clean_date_formatting(r.Book_checkout, pd), pd),
        !.Book_Returned =
            fix_future_dates(clean_date_formatting(r.Book_Returned, pd), pd),
        !.Books = clean_text_fields(r.Books, pd)]

\* handle_impossible_dates: the rows whose checkout text contains '32/' are
\* removed (str.contains with na=False)
handle_impossible_dates(t, pd) ==
    BoolIndex(t, [i \in 1..Len(t) |->
        LET v == astype_str(t[i].Book_checkout, pd)
        IN  ~(v.t = "str" /\ Contains(v.s, <<"3", "2", "/">>))])

clean_dataframe(t, pd) ==
    LET kept == remove_duplicates(remove_empty_rows(t))
    IN  handle_impossible_dates(
            [i \in 1..Len(kept) |-> clean_row(kept[i], pd)], pd)

\* datetime.strptime(s, '%d/%m/%Y'): the date, or NaT where it raises
\* ValueError
strptime(s) ==
    LET parts == split(s, "/")
    IN  IF Len(parts) # 3 THEN NaT
        ELSE IF ~(MatchesDay(parts[1]) /\ MatchesMonth(parts[2])
                    /\ MatchesYear(parts[3])) THEN NaT
        ELSE LET d == DayNumber(parts[1])
                 m == ParseNat(parts[2])
                 y == ParseNat(parts[3])
             IN  IF ValidYMD(y, m, d) THEN Date(y, m, d) ELSE NaT

\* convert_date of standardize_dates; None is the null of the new column
convert_date(v) ==
    IF v.t # "str" \/ v.s = <<"n", "a", "n">> \/ v.s = <<>> THEN NaN
    ELSE strftime_iso(strptime(v.s))

standardize_dates(t) ==
    [i \in 1..Len(t) |->
        [c \in DOMAIN t[i] \cup {"CheckoutDate_ISO", "ReturnDate_ISO"} |->
            CASE c = "CheckoutDate_ISO" -> convert_date(t[i].Book_checkout)
              [] c = "ReturnDate_ISO" -> convert_date(t[i].Book_Returned)
              [] OTHER -> t[i][c]]]

Call_clean_dataframe ==
    /\ op = "init"
    /\ RawTable(df)
    /\ df' = clean_dataframe(df, pandas)
    /\ arg' = df
    /\ passed' = df
    /\ op' = "clean_dataframe"
    /\ UNCHANGED <<raised, pandas, today, swapped_count>>
    /\ UNCHANGED run_vars

Call_standardize_dates ==
    /\ op = "clean_dataframe"
    /\ df' = standardize_dates(df)
    /\ op' = "standardize_dates"
    /\ UNCHANGED <<arg, passed, raised, pandas, today, swapped_count>>
    /\ UNCHANGED run_vars

\* the tables the strict-drop variant is run on: at most one row drawn
\* from RowsLegacy, followed by rows drawn from RowsLegacyOther

MaxRowsLegacy == 2

RowsLegacy ==
    {MkRow(b, c, co, re) :
        b \in {NaN, Str(Txt_A)},
        c \in {NaN, Num(1)},
        co \in {NaN,
                Str(Quoted(D_10_04(Y2063))),
                Str(D_10_04(Y2023)),
                Str(DMY(<<"3", "2">>, <<"0", "5">>, Y2023)),
                Str(DMY(<<"3", "1">>, <<"0", "2">>, Y2023))},
        re \in {NaN, Str(D_01_04)}}

RowsLegacyOther ==
    {MkRow(Str(Txt_A), Num(1), Str(D_10_04(Y2023)), Str(D_01_04)),
     MkRow(Str(Txt_A), Num(1), Str(DMY(<<"3", "2">>, <<"0", "5">>, Y2023)), NaN),
     MkRow(NaN, NaN, NaN, NaN)}

TablesLegacy ==
    {[i \in 1..Len(f) |-> [f[i] EXCEPT !.idx = i - 1]] :
        f \in {g \o h : g \in Tables(RowsLegacy, 1),
                         h \in Tables(RowsLegacyOther, MaxRowsLegacy - 1)}}

InitLegacy == InitWith(TablesLegacy, PandasBuilds, {Date(2023, 3, 1)})

NextLegacy ==
    \/ Call_clean_dataframe
    \/ Call_standardize_dates

SpecLegacy == InitLegacy /\ [][NextLegacy]_vars

\* the checkout text of input row r after quote removal and the
\* 2063 -> 2023 fix is a valid DD/MM/YYYY calendar date
ValidCheckout(r) ==
    /\ r.Book_checkout.t = "str"
    /\ LET text == str_replace(str_replace(r.Book_checkout.s, <<"\"">>, <<>>),
                                Y2063, Y2023)
           parts == split(text, "/")
       IN  /\ Len(parts) = 3
           /\ \A k \in 1..3 : IsDigits(parts[k])
           /\ Len(parts[1]) = 2 /\ Len(parts[2]) = 2 /\ Len(parts[3]) = 4
           /\ ValidYMD(ParseNat(parts[3]), ParseNat(parts[2]),
                       ParseNat(parts[1]))

\* C30: in the strict-drop variant every row whose checkout date text is
\* not a valid DD/MM/YYYY calendar date after quote removal and the
\* 2063 -> 2023 fix is removed from the cleaned table, so every row that
\* survives clean_dataframe gets a non-null CheckoutDate_ISO from
\* standardize_dates.
C30_StrictDrop ==
    /\ (op \in {"clean_dataframe", "standardize_dates"}) =>
          \A i \in 1..Len(arg) :
              ~ValidCheckout(arg[i]) => ~HasLabel(df, arg[i].idx)
    /\ (op = "standardize_dates") =>
          \A j \in 1..Len(df) : notna(df[j].CheckoutDate_ISO)

====
